---------------------------- MODULE Spec2Model ----------------------------
(***************************************************************************)
(* Verification model of the log_detective detection and correlation       *)
(* engine: the JSONL ingestion, the three detectors (impossible travel,     *)
(* failure->success chain, new device), the severity scoring module and    *)
(* the alert-to-case correlation.                                          *)
(*                                                                         *)
(* Each public function is one action that takes the call from "call" to   *)
(* "return"; the arguments of the call are the initial state.  A           *)
(* specification per entry point (SpecScore, SpecCorr, ...) draws the      *)
(* arguments from bounded sets.                                            *)
(***************************************************************************)
EXTENDS Integers, Sequences, FiniteSets, TLC

VARIABLES
    pc,            \* position of the call: "call" | "return" | "raised"
    events,        \* list[AuthEvent] given to a detector, or returned by parse_jsonl
    params,        \* keyword arguments of the call, a record
    alerts,        \* list[Alert]: argument of scoring/correlation, result of a detector
    event_index,   \* dict event_id -> AuthEvent, from parse_jsonl to correlate_cases
    hashseed,      \* the interpreter's string-hash seed (fixes set iteration order)
    uuid_ctr,      \* number of uuid4() values drawn so far (each draw is fresh)
    cases,         \* list[Case] returned by correlate_cases
    prev_run,      \* <<>>, or <<r>> with the cases and hash seed of the previous call
    case_score     \* (final_score, severity) returned by calculate_case_score

vars == <<pc, events, params, alerts, event_index, hashseed, uuid_ctr, cases,
          prev_run, case_score>>

---------------------------------------------------------------------------
(* Bounds of the model *)

\* longest alert list given to calculate_case_score
MaxScoreAlerts == 2

---------------------------------------------------------------------------
(* Generic helpers *)

Max(S) == CHOOSE x \in S : \A y \in S : y <= x
Min(S) == CHOOSE x \in S : \A y \in S : x <= y
Range(s) == {s[i] : i \in 1..Len(s)}
SeqsUpTo(S, n) == UNION {[1..k -> S] : k \in 0..n}

\* the lists of a list of lists, joined end to end
RECURSIVE Concat(_)
Concat(ss) == IF ss = <<>> THEN <<>> ELSE Head(ss) \o Concat(Tail(ss))

\* dict.get(key, default) on an evidence mapping
Get(d, key, default) == IF key \in DOMAIN d THEN d[key] ELSE default

\* Tuple comparison of two keys <<a, b>>, as Python compares tuples
KeyLt(k1, k2) == k1[1] < k2[1] \/ (k1[1] = k2[1] /\ k1[2] < k2[2])

\* list.sort(key=...) / sorted(..., key=...): keys[i] is the key of s[i].
\* Python's sort is stable, so an element goes after every element with a
\* smaller key and after the earlier elements with an equal key.
StableSort(s, keys) ==
    LET n == Len(s)
        before(j, i) == KeyLt(keys[j], keys[i]) \/ (~KeyLt(keys[i], keys[j]) /\ j < i)
        pos(i) == Cardinality({j \in 1..n : before(j, i)}) + 1
    IN  [p \in 1..n |-> s[CHOOSE i \in 1..n : pos(i) = p]]

---------------------------------------------------------------------------
(* Data model *)

Severities == {"low", "medium", "high", "critical"}
Detectors == {"impossible_travel", "fail_success_chain", "new_device_ua"}

\* An Alert with the fields the engine reads.  alert_id, title, description
\* and mitre are never read by scoring or correlation and are left out.
Alert(detector, user, ts_start, ts_end, severity, evidence, related) ==
    [detector |-> detector, user |-> user, ts_start |-> ts_start,
     ts_end |-> ts_end, severity |-> severity, evidence |-> evidence,
     related_event_ids |-> related]

\* Python's None, for the optional string fields of an AuthEvent
None == "None"

\* An AuthEvent with the fields the engine reads.  event_id is a number that
\* stands for the id string; ts is a count of time units.
AuthEvent(event_id, ts, user, source_ip, country, lat, lon, device_id, result, user_agent) ==
    [event_id |-> event_id, ts |-> ts, user |-> user, source_ip |-> source_ip,
     country |-> country, lat |-> lat, lon |-> lon, device_id |-> device_id,
     result |-> result, user_agent |-> user_agent]

---------------------------------------------------------------------------
(* ingest.py *)

\* A line of the file is [json |-> "blank"] (empty after strip),
\* [json |-> "invalid"] (json.loads raises JSONDecodeError),
\* [json |-> "scalar"] (valid JSON that is no object: a number, a string,
\* null, a list) or [json |-> "object", data |-> d], d being the parsed dict,
\* a function from the keys the line has.

\* The timestamp strings of the model
TsStrings == {"2025-01-01T00:00:00Z", "2025-01-01T00:01:00Z", "yesterday"}

\* _parse_timestamp(ts_str): <<ts>> in minutes since 2025-01-01T00:00:00Z, or
\* <<>> when no format matches and ValueError is raised
parse_timestamp(ts_str) ==
    CASE ts_str = "2025-01-01T00:00:00Z" -> <<0>>
      [] ts_str = "2025-01-01T00:01:00Z" -> <<1>>
      [] OTHER -> <<>>

\* _generate_fingerprint(user_agent, source_ip): "fp-" and 12 hex digits of
\* the MD5 of "{user_agent}:{first three octets}", for the addresses of the
\* model and no user agent; any other input stands for ":" here
generate_fingerprint(user_agent, source_ip) ==
    LET parts == CASE source_ip = "10.0.1.5" -> <<"10", "0", "1", "5">>
                   [] source_ip = "10.0.1.9" -> <<"10", "0", "1", "9">>
                   [] source_ip = "10.0.2.5" -> <<"10", "0", "2", "5">>
                   [] OTHER -> <<source_ip>>
        ip_prefix == IF Len(parts) >= 3 THEN SubSeq(parts, 1, 3) ELSE parts
    IN  CASE user_agent = "" /\ ip_prefix = <<"10", "0", "1">> -> "fp-234a9728c4ee"
          [] user_agent = "" /\ ip_prefix = <<"10", "0", "2">> -> "fp-63686c351f55"
          [] OTHER -> "fp-853ae90f0351"

\* The fields AuthEvent(**data) requires
RequiredFields == {"event_id", "ts", "user", "source_ip", "result"}

\* AuthEvent(**data) raises
validation_fails(data) == ~(RequiredFields \subseteq DOMAIN data)

\* AuthEvent(**data) for data that passes validation
event_of(data) ==
    AuthEvent(data.event_id, data.ts, data.user, data.source_ip,
              Get(data, "country", None), None, None, data.device_id, data.result,
              Get(data, "user_agent", None))

\* The body of the loop for an object line up to AuthEvent(**data): the dict
\* with ts parsed and device_id derived, or <<>> when _parse_timestamp raises
\* (the call is outside the try blocks).  ts is a string in every line of the
\* model.
prepare(data) ==
    LET ts == IF "ts" \in DOMAIN data THEN parse_timestamp(data.ts) ELSE <<0>>
        device_id == IF "device_id" \in DOMAIN data /\ data.device_id # ""
                     THEN data.device_id
                     ELSE generate_fingerprint(Get(data, "user_agent", ""),
                                               Get(data, "source_ip", ""))
    IN  IF ts = <<>> THEN <<>>
        ELSE <<[k \in DOMAIN data \cup {"device_id"} |->
                   IF k = "ts" THEN ts[1]
                   ELSE IF k = "device_id" THEN device_id
                   ELSE data[k]]>>

\* A line that makes the loop raise: a scalar has no copy() or cannot be
\* indexed by "raw" (AttributeError, TypeError), an unparsable ts raises
\* ValueError
line_raises(line) ==
    \/ line.json = "scalar"
    \/ line.json = "object" /\ prepare(line.data) = <<>>

\* A line the loop skips: blank, malformed JSON, or an event that fails
\* validation
line_skipped(line) ==
    \/ line.json \in {"blank", "invalid"}
    \/ /\ line.json = "object"
       /\ prepare(line.data) # <<>>
       /\ validation_fails(prepare(line.data)[1])

\* The "for line_num, line in enumerate(lines)" loop from line i on, with the
\* events and index built so far
RECURSIVE parse_lines(_, _, _, _)
parse_lines(lines, i, evs, index) ==
    IF i > Len(lines) THEN [raised |-> FALSE, events |-> evs, event_index |-> index]
    ELSE IF line_raises(lines[i])
         THEN [raised |-> TRUE, events |-> <<>>, event_index |-> <<>>]
    ELSE IF line_skipped(lines[i]) THEN parse_lines(lines, i + 1, evs, index)
    ELSE LET event == event_of(prepare(lines[i].data)[1])
         IN  parse_lines(lines, i + 1, Append(evs, event),
                         [id \in DOMAIN index \cup {event.event_id} |->
                             IF id = event.event_id THEN event ELSE index[id]])

\* parse_jsonl(path): FileNotFoundError when the file does not exist
parse_jsonl(path_exists, lines) ==
    IF ~path_exists THEN [raised |-> TRUE, events |-> <<>>, event_index |-> <<>>]
    ELSE parse_lines(lines, 1, <<>>, <<>>)

---------------------------------------------------------------------------
(* scoring.py *)

BASE_SCORES == [low |-> 25, medium |-> 50, high |-> 75, critical |-> 95]

get_base_score(severity) ==
    IF severity \in DOMAIN BASE_SCORES THEN BASE_SCORES[severity] ELSE 25

severity_from_score(score) ==
    IF score >= 90 THEN "critical"
    ELSE IF score >= 70 THEN "high"
    ELSE IF score >= 40 THEN "medium"
    ELSE "low"

base_score_of_last(als) == get_base_score(als[Len(als)].severity)

\* base_score = max(get_base_score(a.severity) for a in alerts)
base_score(als) == Max({get_base_score(als[i].severity) : i \in 1..Len(als)})

\* +15 if multiple detector types
multi_detector_bonus(als) ==
    IF Cardinality({als[i].detector : i \in 1..Len(als)}) > 1 THEN 15 ELSE 0

\* "+10 if success after many failures" test of one alert
many_failures(alert) ==
    /\ alert.detector = "fail_success_chain"
    /\ Get(alert.evidence, "failure_count", 0) >= 10

\* "+10 if new device AND new country" test of one alert
new_device_and_country(alert) ==
    /\ alert.detector = "new_device_ua"
    /\ Get(alert.evidence, "is_new_device", FALSE)
    /\ Get(alert.evidence, "is_new_country", FALSE)

\* The "for alert in alerts" loop from position i on: either test adds 10
\* and then breaks out of the whole loop.
RECURSIVE pattern_bonus(_, _)
pattern_bonus(als, i) ==
    IF i > Len(als) THEN 0
    ELSE IF many_failures(als[i]) THEN 10
    ELSE IF new_device_and_country(als[i]) THEN 10
    ELSE pattern_bonus(als, i + 1)

final_score_uncapped(base, bonus) == base + bonus

\* final_score = min(100, base_score + bonus)
final_score(base, bonus) == Min({100, base + bonus})

calculate_case_score(als) ==
    IF als = <<>> THEN <<0, "low">>
    ELSE LET score == final_score(base_score(als),
                          multi_detector_bonus(als) + pattern_bonus(als, 1))
         IN  <<score, severity_from_score(score)>>

---------------------------------------------------------------------------
(* SpecScore: one call of calculate_case_score *)

\* Alerts as far as scoring reads them: severity, detector and the evidence
\* keys failure_count / is_new_device / is_new_country.
ScoreAlerts ==
    {Alert("impossible_travel", "u1", 0, 0, s, [ips |-> {"ip1"}, device_ids |-> {}], <<>>) :
        s \in Severities}
    \cup
    {Alert("fail_success_chain", "u1", 0, 0, s,
           [ips |-> {"ip1"}, device_ids |-> {}, failure_count |-> n], <<>>) :
        s \in Severities, n \in {9, 10}}
    \cup
    {Alert("new_device_ua", "u1", 0, 0, s,
           [ips |-> {"ip1"}, device_ids |-> {}, is_new_device |-> d, is_new_country |-> c], <<>>) :
        s \in Severities, d \in BOOLEAN, c \in BOOLEAN}

NoValue == "-"

InitScore ==
    /\ pc = "call"
    /\ alerts \in SeqsUpTo(ScoreAlerts, MaxScoreAlerts)
    /\ events = <<>>
    /\ params = NoValue
    /\ event_index = NoValue
    /\ hashseed = 0
    /\ uuid_ctr = 0
    /\ cases = <<>>
    /\ prev_run = <<>>
    /\ case_score = NoValue

CalculateCaseScore ==
    /\ pc = "call"
    /\ case_score' = calculate_case_score(alerts)
    /\ pc' = "return"
    /\ UNCHANGED <<events, params, alerts, event_index, hashseed, uuid_ctr,
                   cases, prev_run>>

NextScore == CalculateCaseScore

SpecScore == InitScore /\ [][NextScore]_vars

---------------------------------------------------------------------------
(* correlate.py *)

\* Time is counted in whole hours in correlation: timedelta(hours=window_hours)
\* is window_hours itself.

\* The keys of user_alerts, a dict: the users in order of first appearance.
users_by_hash_order(als) ==
    LET us == {als[i].user : i \in 1..Len(als)}
        first(u) == Min({i \in 1..Len(als) : als[i].user = u})
        rank(u) == IF hashseed = 0 THEN first(u) ELSE Len(als) + 1 - first(u)
    IN  [p \in 1..Cardinality(us) |->
            CHOOSE u \in us : Cardinality({v \in us : rank(v) < rank(u)}) = p - 1]

user_alerts_keys(als) ==
    LET us == {als[i].user : i \in 1..Len(als)}
        first(u) == Min({i \in 1..Len(als) : als[i].user = u})
    IN  [p \in 1..Cardinality(us) |->
            CHOOSE u \in us : Cardinality({v \in us : first(v) < first(u)}) = p - 1]

\* user_alerts[user] after user_alert_list.sort(key=lambda a: a.ts_start)
SortByTsStart(als) == StableSort(als, [i \in 1..Len(als) |-> <<als[i].ts_start, 0>>])
user_alert_list_all_users(als, user) == SortByTsStart(als)
user_alert_list(als, user) ==
    SortByTsStart(SelectSeq(als, LAMBDA a : a.user = user))

\* _share_indicators: the alerts share an IP or a device id
share_indicators(alert1, alert2) ==
    LET ips1 == Get(alert1.evidence, "ips", {})
        ips2 == Get(alert2.evidence, "ips", {})
        device_ids1 == Get(alert1.evidence, "device_ids", {})
        device_ids2 == Get(alert2.evidence, "device_ids", {})
    IN  \/ ips1 \cap ips2 # {}
        \/ device_ids1 \cap device_ids2 # {}

should_merge_time_only(alert, current_group, window) ==
    \E k \in 1..Len(current_group) :
        alert.ts_start <= current_group[k].ts_end + window

should_merge_all_groups(alert, current_group, window) ==
    \E k \in 1..Len(alerts) :
        /\ alerts[k].user = alert.user
        /\ alerts[k] # alert
        /\ \/ alert.ts_start <= alerts[k].ts_end + window
           \/ share_indicators(alert, alerts[k])

should_merge_last_only(alert, current_group, window) ==
    LET last == current_group[Len(current_group)]
    IN  \/ alert.ts_start <= last.ts_end + window
        \/ share_indicators(alert, last)

should_merge_strict_window(alert, current_group, window) ==
    \E k \in 1..Len(current_group) :
        \/ alert.ts_start < current_group[k].ts_end + window
        \/ share_indicators(alert, current_group[k])

\* The "for existing in current_group" loop: time proximity to, or a shared
\* indicator with, any alert of the open group
should_merge(alert, current_group, window) ==
    \E k \in 1..Len(current_group) :
        \/ alert.ts_start <= current_group[k].ts_end + window
        \/ share_indicators(alert, current_group[k])

\* The "for alert in alerts[1:]" loop of _merge_alerts_into_cases from
\* position i on, with the groups closed so far and the open group.
RECURSIVE merge_loop(_, _, _, _, _)
merge_loop(als, i, groups, current_group, window) ==
    IF i > Len(als) THEN Append(groups, current_group)
    ELSE IF should_merge(als[i], current_group, window)
         THEN merge_loop(als, i + 1, groups, Append(current_group, als[i]), window)
         ELSE merge_loop(als, i + 1, Append(groups, current_group), <<als[i]>>, window)

merge_alerts_into_cases_closed_only(als, window) ==
    IF als = <<>> THEN <<>>
    ELSE LET groups == merge_loop(als, 2, <<>>, <<als[1]>>, window)
         IN  SubSeq(groups, 1, Len(groups) - 1)

\* _merge_alerts_into_cases(user, alerts, window_hours)
merge_alerts_into_cases(als, window) ==
    IF als = <<>> THEN <<>>
    ELSE merge_loop(als, 2, <<>>, <<als[1]>>, window)

\* Iterating a set of event ids: the order is fixed by the string hashes,
\* which the interpreter seeds once per process.
set_iteration_order(S, seed) ==
    LET rank(x) == IF seed = 0 THEN x ELSE 0 - x
    IN  [p \in 1..Cardinality(S) |->
            CHOOSE x \in S : Cardinality({y \in S : rank(y) < rank(x)}) = p - 1]

\* sorted(..., key=lambda e: e.ts)
SortByTs(evs) == StableSort(evs, [i \in 1..Len(evs) |-> <<evs[i].ts, 0>>])

build_timeline_no_dedup(als, index, seed) ==
    LET ids == Concat([i \in 1..Len(als) |-> als[i].related_event_ids])
        found == SelectSeq(ids, LAMBDA id : id \in DOMAIN index)
    IN  SortByTs([k \in 1..Len(found) |-> index[found[k]]])

\* _build_timeline: the events of the index the alerts relate, sorted by ts
build_timeline(als, index, seed) ==
    LET event_ids == UNION {Range(als[i].related_event_ids) : i \in 1..Len(als)}
        order == set_iteration_order(event_ids, seed)
        found == SelectSeq(order, LAMBDA id : id \in DOMAIN index)
    IN  SortByTs([k \in 1..Len(found) |-> index[found[k]]])

\* The action blocks of _generate_recommendations
ContactUser == <<"Contact user to verify recent login activity">>
TravelActions ==
    <<"Verify user's actual location and travel history",
      "Check for VPN or proxy usage">>
ChainActions ==
    <<"Reset user credentials immediately",
      "Enable or verify MFA enrollment",
      "Review and block suspicious source IPs">>
DeviceActions ==
    <<"Confirm new device is authorized by user",
      "Review device enrollment policies">>
ClosingActions ==
    <<"Review conditional access policies",
      "Check for data exfiltration or account changes",
      "Document incident for compliance records">>

\* the action block of a detector
detector_actions(detector) ==
    CASE detector = "impossible_travel" -> TravelActions
      [] detector = "fail_success_chain" -> ChainActions
      [] detector = "new_device_ua" -> DeviceActions
      [] OTHER -> <<>>

generate_recommendations_as_fired(als) ==
    LET firsts == SelectSeq([i \in 1..Len(als) |-> i],
                            LAMBDA i : \A j \in 1..(i - 1) :
                                          als[j].detector # als[i].detector)
    IN  ContactUser
        \o Concat([k \in 1..Len(firsts) |-> detector_actions(als[firsts[k]].detector)])
        \o ClosingActions

\* _generate_recommendations(alerts)
generate_recommendations(als) ==
    LET detectors == {als[i].detector : i \in 1..Len(als)}
    IN  ContactUser
        \o (IF "impossible_travel" \in detectors THEN TravelActions ELSE <<>>)
        \o (IF "fail_success_chain" \in detectors THEN ChainActions ELSE <<>>)
        \o (IF "new_device_ua" \in detectors THEN DeviceActions ELSE <<>>)
        \o ClosingActions

build_case_first_and_last(user, als, index, seed, uuid) ==
    LET scored == calculate_case_score(als)
    IN  [case_id |-> uuid,
         user |-> user,
         ts_start |-> als[1].ts_start,
         ts_end |-> als[Len(als)].ts_end,
         alerts |-> als,
         overall_severity |-> scored[2],
         overall_score |-> scored[1],
         recommended_actions |-> generate_recommendations(als),
         timeline |-> build_timeline(als, index, seed)]

\* _build_case; uuid is the value uuid4() returns for this case.  The summary
\* text is not part of the model.
build_case(user, als, index, seed, uuid) ==
    LET scored == calculate_case_score(als)
    IN  [case_id |-> uuid,
         user |-> user,
         ts_start |-> Min({als[i].ts_start : i \in 1..Len(als)}),
         ts_end |-> Max({als[i].ts_end : i \in 1..Len(als)}),
         alerts |-> als,
         overall_severity |-> scored[2],
         overall_score |-> scored[1],
         recommended_actions |-> generate_recommendations(als),
         timeline |-> build_timeline(als, index, seed)]

\* severity_order.get(c.overall_severity, 4)
severity_order(severity) ==
    CASE severity = "critical" -> 0
      [] severity = "high" -> 1
      [] severity = "medium" -> 2
      [] severity = "low" -> 3
      [] OTHER -> 4

SortCases_by_ts_start(cs) ==
    StableSort(cs, [i \in 1..Len(cs) |-> <<cs[i].ts_start, 0>>])

\* cases.sort(key=lambda c: (severity_order.get(c.overall_severity, 4), c.ts_start))
SortCases(cs) ==
    StableSort(cs, [i \in 1..Len(cs) |->
                      <<severity_order(cs[i].overall_severity), cs[i].ts_start>>])

\* The groups of every user, in the order the cases are appended: user by
\* user, each user's groups in the order they were closed.
RECURSIVE all_groups(_, _, _, _)
all_groups(als, users, u, window) ==
    IF u > Len(users) THEN <<>>
    ELSE LET gs == merge_alerts_into_cases(user_alert_list(als, users[u]), window)
         IN  [k \in 1..Len(gs) |-> [user |-> users[u], alerts |-> gs[k]]]
             \o all_groups(als, users, u + 1, window)

\* correlate_cases(alerts, event_index, window_hours)
correlate_cases(als, index, window, seed, uuid0) ==
    IF als = <<>> THEN <<>>
    ELSE LET gs == all_groups(als, user_alerts_keys(als), 1, window)
             built == [k \in 1..Len(gs) |->
                          build_case(gs[k].user, gs[k].alerts, index, seed, uuid0 + k)]
         IN  SortCases(built)

---------------------------------------------------------------------------
(* SpecCorr: one call of correlate_cases on alerts that differ in what the
   merge reads: user, time span, IPs and device ids *)

Users == {"u1", "u2"}

\* latest ts_start of an input alert, in hours
MaxTime == 2
\* longest alert, ts_end - ts_start, in hours
MaxDur == 1
\* longest alert list given to correlate_cases
MaxAlerts == 3
\* largest correlation window, in hours
MaxWindow == 1

MergeAlerts ==
    {Alert("impossible_travel", u, t, t + d, "medium",
           [ips |-> ips, device_ids |-> devs], <<>>) :
        u \in Users, t \in 0..MaxTime, d \in 0..MaxDur,
        ips \in {{"ip1"}, {"ip2"}}, devs \in {{}, {"d1"}}}

InitCorr ==
    /\ pc = "call"
    /\ alerts \in SeqsUpTo(MergeAlerts, MaxAlerts)
    /\ params \in [window_hours : 0..MaxWindow]
    /\ event_index = <<>>
    /\ events = <<>>
    /\ hashseed = 0
    /\ uuid_ctr = 0
    /\ cases = <<>>
    /\ prev_run = <<>>
    /\ case_score = NoValue

CorrelateCases ==
    /\ pc = "call"
    /\ cases' = correlate_cases(alerts, event_index, params.window_hours,
                                hashseed, uuid_ctr)
    /\ uuid_ctr' = uuid_ctr + Len(cases')
    /\ pc' = "return"
    /\ UNCHANGED <<events, params, alerts, event_index, hashseed, prev_run, case_score>>

NextCorr == CorrelateCases

SpecCorr == InitCorr /\ [][NextCorr]_vars

---------------------------------------------------------------------------
(* SpecCase: one call of correlate_cases on alerts that differ in what a
   case's severity, recommended actions and place in the result come from:
   detector, severity, user and time.  The alerts share no indicator, so
   with a window of 0 hours two alerts of a user merge when they start at
   the same time. *)

\* longest alert list given to correlate_cases in SpecCase
MaxCaseAlerts == 3
\* latest ts_start of an alert in SpecCase, in hours
MaxCaseTime == 1

SeverityAlerts ==
    {Alert(d, u, t, t, sev, [ips |-> {}, device_ids |-> {}], <<>>) :
        d \in Detectors, u \in Users, t \in 0..MaxCaseTime, sev \in Severities}

InitCase ==
    /\ pc = "call"
    /\ alerts \in SeqsUpTo(SeverityAlerts, MaxCaseAlerts)
    /\ params \in [window_hours : {0}]
    /\ event_index = <<>>
    /\ events = <<>>
    /\ hashseed = 0
    /\ uuid_ctr = 0
    /\ cases = <<>>
    /\ prev_run = <<>>
    /\ case_score = NoValue

NextCase == CorrelateCases

SpecCase == InitCase /\ [][NextCase]_vars

---------------------------------------------------------------------------
(* SpecRerun: correlate_cases called twice on the same alerts, index and
   window; the second call may run in another interpreter process, whose
   string hashes are seeded afresh.  The alerts differ in what a case is
   built from: detector, severity, evidence and related events. *)

HashSeeds == {0, 1}

\* longest alert list given to the repeated call
MaxRerunAlerts == 2
\* the event ids are 1..MaxEventId
MaxEventId == 3
\* latest ts of an indexed event
MaxEventTs == 1

CaseAlerts ==
    {Alert(p[1], u, t, t, p[2], p[3], rel) :
        p \in {<<"impossible_travel", "high", [ips |-> {"ip1"}, device_ids |-> {}]>>,
               <<"fail_success_chain", "medium",
                 [ips |-> {"ip1"}, device_ids |-> {}, failure_count |-> 10]>>,
               <<"new_device_ua", "medium",
                 [ips |-> {"ip2"}, device_ids |-> {"d1"},
                  is_new_device |-> TRUE, is_new_country |-> FALSE]>>},
        u \in Users, t \in 0..MaxEventTs,
        rel \in {<<1, 2>>, <<2, 3>>, <<3, 1>>}}

IndexedEvent(id, ts) ==
    AuthEvent(id, ts, "u1", "ip1", None, None, None, None, "success", None)

EventIndexes ==
    {[id \in 1..MaxEventId |-> IndexedEvent(id, ts[id])] :
        ts \in [1..MaxEventId -> 0..MaxEventTs]}

InitRerun ==
    /\ pc = "call"
    /\ alerts \in SeqsUpTo(CaseAlerts, MaxRerunAlerts)
    /\ params \in [window_hours : {0}]
    /\ event_index \in EventIndexes
    /\ events = <<>>
    /\ hashseed \in HashSeeds
    /\ uuid_ctr = 0
    /\ cases = <<>>
    /\ prev_run = <<>>
    /\ case_score = NoValue

\* The caller keeps the first result and calls again with the same arguments.
Rerun ==
    /\ pc = "return"
    /\ prev_run = <<>>
    /\ prev_run' = <<[cases |-> cases, hashseed |-> hashseed]>>
    /\ hashseed' \in HashSeeds
    /\ cases' = <<>>
    /\ pc' = "call"
    /\ UNCHANGED <<events, params, alerts, event_index, uuid_ctr, case_score>>

NextRerun == CorrelateCases \/ Rerun

SpecRerun == InitRerun /\ [][NextRerun]_vars

---------------------------------------------------------------------------
(* SpecTimeline: one call of correlate_cases with an event index that may
   lack any of the related events, or all of them *)

PartialEventIndexes ==
    UNION {{[id \in ids |-> IndexedEvent(id, ts[id])] : ts \in [ids -> 0..MaxEventTs]} :
              ids \in SUBSET (1..MaxEventId)}

InitTimeline ==
    /\ pc = "call"
    /\ alerts \in SeqsUpTo(CaseAlerts, MaxRerunAlerts)
    /\ params \in [window_hours : {0}]
    /\ event_index \in PartialEventIndexes
    /\ events = <<>>
    /\ hashseed \in HashSeeds
    /\ uuid_ctr = 0
    /\ cases = <<>>
    /\ prev_run = <<>>
    /\ case_score = NoValue

NextTimeline == CorrelateCases

SpecTimeline == InitTimeline /\ [][NextTimeline]_vars

---------------------------------------------------------------------------
(* detectors/impossible_travel.py *)

\* The detectors count time in minutes: ts is a number of minutes, and
\* time_delta = (event2.ts - event1.ts).total_seconds() / 3600 hours is
\* dt / 60 for dt = event2.ts - event1.ts.  Comparisons of hours and of
\* km/h are multiplied out, so that everything stays a whole number.

NewYork == <<"40.7128", "-74.0060">>
Tokyo == <<"35.6762", "139.6503">>
London == <<"51.5074", "-0.1278">>
Boston == <<"42.3601", "-71.0589">>

\* haversine(loc1, loc2, unit=Unit.KILOMETERS) of the library, on the
\* coordinates of the model, rounded to whole kilometres
haversine_km(loc1, loc2) ==
    CASE loc1 = loc2 -> 0
      [] {loc1, loc2} = {NewYork, Tokyo} -> 10852
      [] {loc1, loc2} = {NewYork, London} -> 5570
      [] {loc1, loc2} = {NewYork, Boston} -> 306
      [] {loc1, loc2} = {London, Tokyo} -> 9559
      [] {loc1, loc2} = {Boston, Tokyo} -> 10794
      [] {loc1, loc2} = {Boston, London} -> 5264

\* the keys of user_events, a dict: the users in order of first appearance
user_events_keys(evs) ==
    LET us == {evs[i].user : i \in 1..Len(evs)}
        first(u) == Min({i \in 1..Len(evs) : evs[i].user = u})
    IN  [p \in 1..Cardinality(us) |->
            CHOOSE u \in us : Cardinality({v \in us : first(v) < first(u)}) = p - 1]

\* success events with location data
geo_success(e) == e.result = "success" /\ e.lat # None /\ e.lon # None

travel_skip_no_upper(dt, max_hours) == dt <= 0

\* if time_delta > max_hours or time_delta <= 0: continue
travel_skip(dt, max_hours) == dt > max_hours * 60 \/ dt <= 0

\* speed_kmh > speed_threshold_kmh, speed_kmh being distance_km / time_delta,
\* and infinite for a time_delta that is not positive
speed_exceeds(distance_km, dt, kmh) ==
    IF dt > 0 THEN distance_km * 60 > kmh * dt ELSE TRUE

travel_severity_high_below_2h(distance_km, dt) ==
    IF speed_exceeds(distance_km, dt, 2000) /\ dt < 2 * 60 THEN "critical"
    ELSE IF speed_exceeds(distance_km, dt, 900) /\ dt < 2 * 60 THEN "high"
    ELSE "medium"

travel_severity_follows_params(distance_km, dt) ==
    IF speed_exceeds(distance_km, dt, 2000) /\ dt < 2 * 60 THEN "critical"
    ELSE IF /\ speed_exceeds(distance_km, dt, params.speed_threshold_kmh)
            /\ dt <= params.max_hours * 60
    THEN "high"
    ELSE "medium"

\* the severity of _create_alert
travel_severity(distance_km, dt) ==
    IF speed_exceeds(distance_km, dt, 2000) /\ dt < 2 * 60 THEN "critical"
    ELSE IF speed_exceeds(distance_km, dt, 900) /\ dt < 6 * 60 THEN "high"
    ELSE "medium"

\* _create_alert of the impossible-travel detector.  The rounded floats of the
\* evidence (hours_between, speed_kmh) are kept exact, as distance and minutes.
travel_create_alert(event1, event2, distance_km, dt) ==
    Alert("impossible_travel", event1.user,
          Min({event1.ts, event2.ts}), Max({event1.ts, event2.ts}),
          travel_severity(distance_km, dt),
          [ips |-> {event1.source_ip, event2.source_ip},
           device_ids |-> {event1.device_id, event2.device_id} \ {None},
           countries |-> {event1.country, event2.country} \ {None},
           distance_km |-> distance_km,
           minutes_between |-> dt],
          <<event1.event_id, event2.event_id>>)

\* the "for i in range(len(user_evts) - 1)" loop from pair i on
RECURSIVE travel_pairs(_, _, _, _)
travel_pairs(user_evts, i, speed_threshold_kmh, max_hours) ==
    IF i > Len(user_evts) - 1 THEN <<>>
    ELSE LET event1 == user_evts[i]
             event2 == user_evts[i + 1]
             dt == event2.ts - event1.ts
             distance_km == haversine_km(<<event1.lat, event1.lon>>,
                                         <<event2.lat, event2.lon>>)
             found == /\ ~travel_skip(dt, max_hours)
                      /\ speed_exceeds(distance_km, dt, speed_threshold_kmh)
         IN  (IF found
              THEN <<travel_create_alert(event1, event2, distance_km, dt)>>
              ELSE <<>>)
             \o travel_pairs(user_evts, i + 1, speed_threshold_kmh, max_hours)

\* the "for user, user_evts in user_events.items()" loop from user u on
RECURSIVE travel_users(_, _, _, _, _)
travel_users(success_events, users, u, speed_threshold_kmh, max_hours) ==
    IF u > Len(users) THEN <<>>
    ELSE LET user_evts ==
                 SortByTs(SelectSeq(success_events, LAMBDA e : e.user = users[u]))
         IN  travel_pairs(user_evts, 1, speed_threshold_kmh, max_hours)
             \o travel_users(success_events, users, u + 1,
                             speed_threshold_kmh, max_hours)

\* detect_impossible_travel(events, speed_threshold_kmh, max_hours)
detect_impossible_travel(evs, speed_threshold_kmh, max_hours) ==
    LET success_events == SelectSeq(evs, geo_success)
    IN  travel_users(success_events, user_events_keys(success_events), 1,
                     speed_threshold_kmh, max_hours)

---------------------------------------------------------------------------
(* SpecTravel: one call of detect_impossible_travel *)

\* longest event list given to the impossible-travel detector
MaxTravelEvents == 3
\* the events lie on a grid of 90 minutes: ts is 90 * k, k in 0..MaxTravelSteps
MaxTravelSteps == 3

\* result, lat and lon of an event: a failure, and successes without, with
\* half and with full coordinates
TravelKinds ==
    {<<"failure", NewYork[1], NewYork[2]>>,
     <<"success", None, None>>,
     <<"success", NewYork[1], None>>,
     <<"success", NewYork[1], NewYork[2]>>,
     <<"success", Tokyo[1], Tokyo[2]>>}

TravelShapes == Users \X (0..MaxTravelSteps) \X TravelKinds

\* the list of events of the given shapes; the event id is the position
TravelEvents(shapes) ==
    [i \in 1..Len(shapes) |->
        AuthEvent(i, 90 * shapes[i][2], shapes[i][1], "ip1", None,
                  shapes[i][3][2], shapes[i][3][3], None, shapes[i][3][1], None)]

InitTravel ==
    /\ pc = "call"
    /\ \E shapes \in SeqsUpTo(TravelShapes, MaxTravelEvents) :
           events = TravelEvents(shapes)
    /\ params \in [speed_threshold_kmh : {900}, max_hours : {3, 6}]
    /\ alerts = <<>>
    /\ event_index = <<>>
    /\ hashseed = 0
    /\ uuid_ctr = 0
    /\ cases = <<>>
    /\ prev_run = <<>>
    /\ case_score = NoValue

DetectImpossibleTravel ==
    /\ pc = "call"
    /\ alerts' = detect_impossible_travel(events, params.speed_threshold_kmh,
                                          params.max_hours)
    /\ uuid_ctr' = uuid_ctr + Len(alerts')
    /\ pc' = "return"
    /\ UNCHANGED <<events, params, event_index, hashseed, cases, prev_run, case_score>>

NextTravel == DetectImpossibleTravel

SpecTravel == InitTravel /\ [][NextTravel]_vars

---------------------------------------------------------------------------
(* SpecSpeed: one call of detect_impossible_travel on one user's logins from
   places near and far, minutes and hours apart, with thresholds below and
   above the fixed bounds of the severity *)

\* longest event list of SpecSpeed
MaxSpeedEvents == 3

\* the ts of the events, in minutes
SpeedTimes == {0, 20, 120, 360, 720}

SpeedPlaces == {NewYork, Boston, London, Tokyo}

SpeedShapes == SpeedTimes \X SpeedPlaces

\* the list of successes of the given shapes; the event id is the position
SpeedEvents(shapes) ==
    [i \in 1..Len(shapes) |->
        AuthEvent(i, shapes[i][1], "u1", "ip1", None, shapes[i][2][1],
                  shapes[i][2][2], None, "success", None)]

InitSpeed ==
    /\ pc = "call"
    /\ \E shapes \in SeqsUpTo(SpeedShapes, MaxSpeedEvents) :
           events = SpeedEvents(shapes)
    /\ params \in [speed_threshold_kmh : {100, 900, 3000}, max_hours : {1, 6, 24}]
    /\ alerts = <<>>
    /\ event_index = <<>>
    /\ hashseed = 0
    /\ uuid_ctr = 0
    /\ cases = <<>>
    /\ prev_run = <<>>
    /\ case_score = NoValue

NextSpeed == DetectImpossibleTravel

SpecSpeed == InitSpeed /\ [][NextSpeed]_vars

---------------------------------------------------------------------------
(* detectors/fail_success_chain.py *)

window_start_abs(ts, window_minutes) ==
    IF window_minutes < 0 THEN ts + window_minutes ELSE ts - window_minutes

\* window_start = event.ts - timedelta(minutes=window_minutes)
window_start(ts, window_minutes) == ts - window_minutes

RECURSIVE scan_back_to_success(_, _, _)
scan_back_to_success(user_evts, j, start) ==
    IF j < 1 THEN <<>>
    ELSE IF user_evts[j].ts < start \/ user_evts[j].result = "success" THEN <<>>
    ELSE <<user_evts[j]>> \o scan_back_to_success(user_evts, j - 1, start)

scan_back_exclusive(user_evts, j, start) ==
    LET inside == {k \in 1..j : \A m \in k..j : user_evts[m].ts > start}
        fails == {k \in inside : user_evts[k].result = "failure"}
        order == [p \in 1..Cardinality(fails) |->
                     CHOOSE k \in fails : Cardinality({m \in fails : m > k}) = p - 1]
    IN  [p \in 1..Len(order) |-> user_evts[order[p]]]

\* the "for j in range(i - 1, -1, -1)" loop from position j down: the
\* failures met before the first event older than the window start, latest first
RECURSIVE scan_back(_, _, _)
scan_back(user_evts, j, start) ==
    IF j < 1 THEN <<>>
    ELSE IF user_evts[j].ts < start THEN <<>>
    ELSE (IF user_evts[j].result = "failure" THEN <<user_evts[j]>> ELSE <<>>)
         \o scan_back(user_evts, j - 1, start)

\* ip_counts: the number of failures per source IP
ip_counts(failures) ==
    [ip \in {failures[k].source_ip : k \in 1..Len(failures)} |->
        Cardinality({k \in 1..Len(failures) : failures[k].source_ip = ip})]

\* list(ip_counts.keys()): the source IPs in the order in which the
\* "for f in failures" loop met them first (a dict keeps insertion order)
ip_counts_keys(failures) ==
    LET ips == {failures[k].source_ip : k \in 1..Len(failures)}
        first(ip) == Min({k \in 1..Len(failures) : failures[k].source_ip = ip})
    IN  [p \in 1..Cardinality(ips) |->
            CHOOSE ip \in ips : Cardinality({o \in ips : first(o) < first(ip)}) = p - 1]

\* max(ip_counts.values()) if ip_counts else 0
max_same_ip(counts) ==
    IF DOMAIN counts = {} THEN 0 ELSE Max({counts[ip] : ip \in DOMAIN counts})

chain_trigger_multi_first(failures, min_failures_same_ip, min_failures_multi_ip) ==
    IF Len(failures) >= min_failures_multi_ip
    THEN <<"multi_ip", min_failures_multi_ip>>
    ELSE IF max_same_ip(ip_counts(failures)) >= min_failures_same_ip
    THEN <<"same_ip", min_failures_same_ip>>
    ELSE <<>>

\* the threshold checks: <<attack_type, threshold_used>>, or <<>> for no alert
chain_trigger(failures, min_failures_same_ip, min_failures_multi_ip) ==
    IF max_same_ip(ip_counts(failures)) >= min_failures_same_ip
    THEN <<"same_ip", min_failures_same_ip>>
    ELSE IF Len(failures) >= min_failures_multi_ip
    THEN <<"multi_ip", min_failures_multi_ip>>
    ELSE <<>>

chain_severity_any_type(failures, attack_type, threshold_used) ==
    IF max_same_ip(ip_counts(failures)) >= 12 THEN "high"
    ELSE IF Len(failures) >= threshold_used THEN "medium"
    ELSE "low"

\* the severity of _create_alert
chain_severity(failures, attack_type, threshold_used) ==
    IF attack_type = "same_ip" /\ max_same_ip(ip_counts(failures)) >= 12 THEN "high"
    ELSE IF Len(failures) >= threshold_used THEN "medium"
    ELSE "low"

\* the description of _create_alert, as the values it puts into the text:
\* "Detected {attempts} failed login attempts from the same IP ({same_ip})"
\* or "Detected {attempts} failed login attempts from {different_ips}
\* different IPs"
chain_description(failures, attack_type) ==
    IF attack_type = "same_ip"
    THEN [attempts |-> max_same_ip(ip_counts(failures)),
          same_ip |-> ip_counts_keys(failures)[1]]
    ELSE [attempts |-> Len(failures),
          different_ips |-> Cardinality(DOMAIN ip_counts(failures))]

\* _create_alert of the chain detector.  ts_start is the ts of the first of
\* the failures sorted by ts, their smallest ts.
chain_create_alert(user, failures, success, attack_type, threshold_used) ==
    [description |-> chain_description(failures, attack_type)] @@
    Alert("fail_success_chain", user,
          Min({failures[k].ts : k \in 1..Len(failures)}), success.ts,
          chain_severity(failures, attack_type, threshold_used),
          [ips |-> DOMAIN ip_counts(failures) \cup {success.source_ip},
           device_ids |-> ({failures[k].device_id : k \in 1..Len(failures)}
                           \cup {success.device_id}) \ {None},
           countries |-> ({failures[k].country : k \in 1..Len(failures)}
                          \cup {success.country}) \ {None},
           failure_count |-> Len(failures),
           distinct_ips |-> Cardinality(DOMAIN ip_counts(failures)),
           max_same_ip_failures |-> max_same_ip(ip_counts(failures)),
           attack_type |-> attack_type,
           threshold_used |-> threshold_used,
           success_ip |-> success.source_ip],
          [k \in 1..Len(failures) |-> failures[k].event_id] \o <<success.event_id>>)

\* the "for i, event in enumerate(user_evts)" loop from position i on
RECURSIVE chain_events(_, _, _, _)
chain_events(user, user_evts, i, p) ==
    IF i > Len(user_evts) THEN <<>>
    ELSE LET event == user_evts[i]
             failures == scan_back(user_evts, i - 1,
                                  window_start(event.ts, p.window_minutes))
             trigger == chain_trigger(failures, p.min_failures_same_ip,
                                      p.min_failures_multi_ip)
         IN  (IF event.result # "success" \/ failures = <<>> \/ trigger = <<>>
              THEN <<>>
              ELSE <<chain_create_alert(user, failures, event, trigger[1], trigger[2])>>)
             \o chain_events(user, user_evts, i + 1, p)

\* the "for user, user_evts in user_events.items()" loop from user u on
RECURSIVE chain_users(_, _, _, _)
chain_users(evs, users, u, p) ==
    IF u > Len(users) THEN <<>>
    ELSE chain_events(users[u],
                      SortByTs(SelectSeq(evs, LAMBDA e : e.user = users[u])), 1, p)
         \o chain_users(evs, users, u + 1, p)

\* detect_fail_success_chain(events, window_minutes, min_failures_same_ip,
\*                           min_failures_multi_ip)
detect_fail_success_chain(evs, p) ==
    chain_users(evs, user_events_keys(evs), 1, p)

---------------------------------------------------------------------------
(* SpecChain: one call of detect_fail_success_chain *)

\* longest event list given to the chain detector
MaxChainEvents == 3
\* latest ts of an event given to the chain detector, in minutes
MaxChainTs == 2

ChainShapes == Users \X (0..MaxChainTs) \X {"failure", "success"} \X {"ip1", "ip2"}

\* the list of events of the given shapes; the event id is the position
ChainEvents(shapes) ==
    [i \in 1..Len(shapes) |->
        AuthEvent(i, shapes[i][2], shapes[i][1], shapes[i][4], None, None, None,
                  None, shapes[i][3], None)]

\* The thresholds are not validated: 0 is accepted like any other number.
InitChain ==
    /\ pc = "call"
    /\ \E shapes \in SeqsUpTo(ChainShapes, MaxChainEvents) :
           events = ChainEvents(shapes)
    /\ params \in [window_minutes : {-1, 1, 2},
                   min_failures_same_ip : {0, 2},
                   min_failures_multi_ip : {1, 3}]
    /\ alerts = <<>>
    /\ event_index = <<>>
    /\ hashseed = 0
    /\ uuid_ctr = 0
    /\ cases = <<>>
    /\ prev_run = <<>>
    /\ case_score = NoValue

DetectFailSuccessChain ==
    /\ pc = "call"
    /\ alerts' = detect_fail_success_chain(events, params)
    /\ uuid_ctr' = uuid_ctr + Len(alerts')
    /\ pc' = "return"
    /\ UNCHANGED <<events, params, event_index, hashseed, cases, prev_run, case_score>>

NextChain == DetectFailSuccessChain

SpecChain == InitChain /\ [][NextChain]_vars

---------------------------------------------------------------------------
(* SpecBurst: one call of detect_fail_success_chain on bursts of failures *)

\* most bursts of failures before the success
MaxBursts == 2
\* the numbers of failures a burst can have
BurstSizes == {1, 2, 11, 12, 13}

\* a burst: a source IP and the number of failures that come from it in a row
BurstShapes == {"ip1", "ip2"} \X BurstSizes

\* the source IPs of the failures of the bursts, one after the other
RECURSIVE BurstIps(_)
BurstIps(bursts) ==
    IF bursts = <<>> THEN <<>>
    ELSE [k \in 1..bursts[1][2] |-> bursts[1][1]] \o BurstIps(Tail(bursts))

\* one user's events: the failures of the bursts, a minute apart, then a
\* success from ip1 a minute after the last of them; the event id is the
\* position
BurstEvents(bursts) ==
    LET ips == BurstIps(bursts)
    IN  [i \in 1..Len(ips) |->
            AuthEvent(i, i, "u1", ips[i], None, None, None, None, "failure", None)]
        \o <<AuthEvent(Len(ips) + 1, Len(ips) + 1, "u1", "ip1", None, None, None,
                       None, "success", None)>>

\* The window holds the last 14 failures or all of them; the thresholds are
\* the defaults of the function (5 and 10) and values around the sizes of the
\* bursts, a threshold of 0 and a negative one included.
InitBurst ==
    /\ pc = "call"
    /\ \E bursts \in SeqsUpTo(BurstShapes, MaxBursts) :
           events = BurstEvents(bursts)
    /\ params \in [window_minutes : {14, 60},
                   min_failures_same_ip : {-1, 0, 2, 5, 12, 30},
                   min_failures_multi_ip : {0, 3, 10, 40}]
    /\ alerts = <<>>
    /\ event_index = <<>>
    /\ hashseed = 0
    /\ uuid_ctr = 0
    /\ cases = <<>>
    /\ prev_run = <<>>
    /\ case_score = NoValue

NextBurst == DetectFailSuccessChain

SpecBurst == InitBurst /\ [][NextBurst]_vars

---------------------------------------------------------------------------
(* detectors/new_device_ua.py *)

\* The user-agent strings of the model, each standing for one browser:
\*   SafariMac    "... (Macintosh; Intel Mac OS X 10_15_7) ... Safari/605.1.15"
\*   SafariIphone "... (iPhone; CPU iPhone OS 17_0 like Mac OS X) ... Safari/604.1"
SafariMac == "SafariMac"
SafariIphone == "SafariIphone"

\* The words of the fallback matching that the lower-cased string contains
ua_lower(user_agent) ==
    CASE user_agent = SafariMac -> {"safari", "mac"}
      [] user_agent = SafariIphone -> {"safari", "iphone", "mac"}
      [] OTHER -> {}

\* The fallback of _get_ua_family: simple pattern matching
ua_family_fallback(user_agent) ==
    LET has(w) == w \in ua_lower(user_agent)
        browser == IF has("chrome") /\ has("safari") /\ ~has("edg") THEN "Chrome"
                   ELSE IF has("firefox") THEN "Firefox"
                   ELSE IF has("safari") /\ ~has("chrome") THEN "Safari"
                   ELSE IF has("edg") THEN "Edge"
                   ELSE "Other"
        os == IF has("windows") THEN "Windows"
              ELSE IF has("mac") \/ has("iphone") \/ has("ipad") THEN "Apple"
              ELSE IF has("android") THEN "Android"
              ELSE IF has("linux") THEN "Linux"
              ELSE "Other"
    IN  <<browser, os>>

\* user_agents.parse(user_agent): browser.family and os.family of the
\* user-agents library for the strings of the model
parse_ua(user_agent) ==
    CASE user_agent = SafariMac -> <<"Safari", "Mac OS X">>
      [] user_agent = SafariIphone -> <<"Mobile Safari", "iOS">>
      [] OTHER -> <<"Other", "Other">>

\* _get_ua_family: "{browser} on {os}" as the pair <<browser, os>>, and
\* <<"Unknown">> for a missing user agent.  has_user_agents tells whether the
\* user-agents library could be imported.
get_ua_family(user_agent, has_user_agents) ==
    IF user_agent = None THEN <<"Unknown">>
    ELSE IF has_user_agents THEN parse_ua(user_agent)
    ELSE ua_family_fallback(user_agent)

\* DeviceBaseline(device_ids=set(), ua_families=set(), countries=set(), last_seen=None)
EmptyBaseline ==
    [device_ids |-> {}, ua_families |-> {}, countries |-> {}, last_seen |-> None]

update_baseline_success_only(baseline, event, has_user_agents) ==
    IF event.device_id = None \/ event.result # "success" THEN baseline
    ELSE [device_ids |-> baseline.device_ids \cup {event.device_id},
          ua_families |-> baseline.ua_families
                          \cup {get_ua_family(event.user_agent, has_user_agents)},
          countries |-> baseline.countries
                        \cup (IF event.country # None THEN {event.country} ELSE {}),
          last_seen |-> event.ts]

\* "if event.device_id: baseline = DeviceBaseline(...)": the baseline after
\* the event, success or failure
update_baseline(baseline, event, has_user_agents) ==
    IF event.device_id = None THEN baseline
    ELSE [device_ids |-> baseline.device_ids \cup {event.device_id},
          ua_families |-> baseline.ua_families
                          \cup {get_ua_family(event.user_agent, has_user_agents)},
          countries |-> baseline.countries
                        \cup (IF event.country # None THEN {event.country} ELSE {}),
          last_seen |-> event.ts]

is_new_device_outside_lookback(event, baseline) ==
    /\ event.device_id # None
    /\ \/ event.device_id \notin baseline.device_ids
       \/ event.ts - baseline.last_seen > params.lookback_days

\* The three tests of _check_for_anomaly, by their truth value
is_new_device(event, baseline) ==
    event.device_id # None /\ event.device_id \notin baseline.device_ids

is_new_ua_family(event, baseline, has_user_agents) ==
    /\ event.user_agent # None
    /\ baseline.ua_families # {}
    /\ get_ua_family(event.user_agent, has_user_agents) \notin baseline.ua_families

is_new_country(event, baseline) ==
    /\ event.country # None
    /\ baseline.countries # {}
    /\ event.country \notin baseline.countries

device_severity_new_ua_only(new_device, new_ua_family, new_country) ==
    IF new_ua_family /\ new_country THEN "high" ELSE "medium"

\* high if (new device or new UA family) and new country, else medium
device_severity(new_device, new_ua_family, new_country) ==
    IF (new_device \/ new_ua_family) /\ new_country THEN "high" ELSE "medium"

anomaly_found_any_novelty(new_device, new_ua_family, new_country) ==
    new_device \/ new_ua_family \/ new_country

\* "if not is_new_device and not is_new_ua_family: return None", negated
anomaly_found(new_device, new_ua_family, new_country) ==
    new_device \/ new_ua_family

\* _check_for_anomaly(event, baseline, user): <<alert>>, or <<>> for None
check_for_anomaly(event, baseline, user, has_user_agents) ==
    LET new_device == is_new_device(event, baseline)
        new_ua_family == is_new_ua_family(event, baseline, has_user_agents)
        new_country == is_new_country(event, baseline)
    IN  IF ~anomaly_found(new_device, new_ua_family, new_country) THEN <<>>
        ELSE <<Alert("new_device_ua", user, event.ts, event.ts,
                     device_severity(new_device, new_ua_family, new_country),
                     [ips |-> {event.source_ip},
                      device_ids |-> {event.device_id} \ {None},
                      countries |-> {event.country} \ {None},
                      is_new_device |-> new_device,
                      is_new_ua_family |-> new_ua_family,
                      is_new_country |-> new_country,
                      new_device_id |-> event.device_id,
                      known_devices_count |-> Cardinality(baseline.device_ids),
                      known_ua_families |-> baseline.ua_families,
                      known_countries |-> baseline.countries],
                     <<event.event_id>>)>>

baseline_ready_after_any_event(baseline, seen) == seen > 0

\* "if baseline.device_ids:" - only check if we have baseline data; seen is
\* the number of the user's events walked so far
baseline_ready(baseline, seen) == baseline.device_ids # {}

\* The "for event in user_evts" loop from position i on
RECURSIVE device_walk(_, _, _, _, _)
device_walk(user, user_evts, i, baseline, has_user_agents) ==
    IF i > Len(user_evts) THEN <<>>
    ELSE LET event == user_evts[i]
         IN  (IF event.result = "success" /\ baseline_ready(baseline, i - 1)
              THEN check_for_anomaly(event, baseline, user, has_user_agents)
              ELSE <<>>)
             \o device_walk(user, user_evts, i + 1,
                            update_baseline(baseline, event, has_user_agents),
                            has_user_agents)

RECURSIVE shared_walk(_, _, _, _)
shared_walk(evs, i, baseline, has_user_agents) ==
    IF i > Len(evs) THEN <<>>
    ELSE (IF evs[i].result = "success" /\ baseline_ready(baseline, i - 1)
          THEN check_for_anomaly(evs[i], baseline, evs[i].user, has_user_agents)
          ELSE <<>>)
         \o shared_walk(evs, i + 1, update_baseline(baseline, evs[i], has_user_agents),
                        has_user_agents)

device_users_shared_baseline(sorted_events, users, u, has_user_agents) ==
    shared_walk(sorted_events, 1, EmptyBaseline, has_user_agents)

\* The "for user, user_evts in user_events.items()" loop from user u on
RECURSIVE device_users(_, _, _, _)
device_users(sorted_events, users, u, has_user_agents) ==
    IF u > Len(users) THEN <<>>
    ELSE device_walk(users[u],
                     SelectSeq(sorted_events, LAMBDA e : e.user = users[u]),
                     1, EmptyBaseline, has_user_agents)
         \o device_users(sorted_events, users, u + 1, has_user_agents)

\* detect_new_device(events, lookback_days); lookback_days is never read
detect_new_device(evs, lookback_days, has_user_agents) ==
    LET sorted_events == SortByTs(evs)
    IN  device_users(sorted_events, user_events_keys(sorted_events), 1,
                     has_user_agents)

---------------------------------------------------------------------------
(* SpecDevice: one call of detect_new_device *)

\* longest event list given to the new-device detector
MaxDeviceEvents == 3
\* latest ts of an event in a list of fewer than MaxDeviceEvents events
MaxDeviceTs == 1

\* <<user, ts, result, device_id, country, user_agent>>; any value of the
\* three optional fields may be missing
DeviceShapes ==
    Users \X (0..MaxDeviceTs) \X {"failure", "success"} \X {None, "d1", "d2"}
        \X {None, "c1", "c2"} \X {None, SafariMac, SafariIphone}

\* The longest lists are in time order, one time unit apart, and every event
\* carries a country and a user agent
LongDeviceShapes ==
    [1..MaxDeviceEvents ->
        Users \X {0} \X {"failure", "success"} \X {None, "d1", "d2"}
            \X {"c1", "c2"} \X {SafariMac, SafariIphone}]

\* the list of events of the given shapes; the event id is the position
DeviceEvents(shapes, spread) ==
    [i \in 1..Len(shapes) |->
        AuthEvent(i, shapes[i][2] + spread * i, shapes[i][1], "ip1", shapes[i][5],
                  None, None, shapes[i][4], shapes[i][3], shapes[i][6])]

InitDevice ==
    /\ pc = "call"
    /\ \/ \E shapes \in SeqsUpTo(DeviceShapes, MaxDeviceEvents - 1) :
              events = DeviceEvents(shapes, 0)
       \/ \E shapes \in LongDeviceShapes : events = DeviceEvents(shapes, 1)
    /\ params \in [lookback_days : {30}, has_user_agents : BOOLEAN]
    /\ alerts = <<>>
    /\ event_index = <<>>
    /\ hashseed = 0
    /\ uuid_ctr = 0
    /\ cases = <<>>
    /\ prev_run = <<>>
    /\ case_score = NoValue

DetectNewDevice ==
    /\ pc = "call"
    /\ alerts' = detect_new_device(events, params.lookback_days, params.has_user_agents)
    /\ uuid_ctr' = uuid_ctr + Len(alerts')
    /\ pc' = "return"
    /\ UNCHANGED <<events, params, event_index, hashseed, cases, prev_run, case_score>>

NextDevice == DetectNewDevice

SpecDevice == InitDevice /\ [][NextDevice]_vars

---------------------------------------------------------------------------
(* SpecLookback: one call of detect_new_device on the logins of one user that
   lie days and weeks apart, with lookback_days shorter and longer than the
   gaps.  Times are in days. *)

\* longest event list of SpecLookback
MaxLookbackEvents == 3

\* the ts of the events, in days
LookbackTimes == {0, 1, 40}

\* <<ts, result, device_id, user_agent>>
LookbackShapes ==
    LookbackTimes \X {"failure", "success"} \X {None, "d1", "d2"}
        \X {SafariMac, SafariIphone}

\* the list of events of the given shapes; the event id is the position
LookbackEvents(shapes) ==
    [i \in 1..Len(shapes) |->
        AuthEvent(i, shapes[i][1], "u1", "ip1", None, None, None, shapes[i][3],
                  shapes[i][2], shapes[i][4])]

InitLookback ==
    /\ pc = "call"
    /\ \E shapes \in SeqsUpTo(LookbackShapes, MaxLookbackEvents) :
           events = LookbackEvents(shapes)
    /\ params \in [lookback_days : {0, 1, 30}, has_user_agents : {TRUE}]
    /\ alerts = <<>>
    /\ event_index = <<>>
    /\ hashseed = 0
    /\ uuid_ctr = 0
    /\ cases = <<>>
    /\ prev_run = <<>>
    /\ case_score = NoValue

NextLookback == DetectNewDevice

SpecLookback == InitLookback /\ [][NextLookback]_vars

---------------------------------------------------------------------------
(* SpecIngest: one call of parse_jsonl *)

\* most lines of a file
MaxLines == 3

\* the dict d without the keys of the set dropped
Without(d, dropped) == [k \in DOMAIN d \ dropped |-> d[k]]

\* The object lines: an event with event id 1 or 2, any timestamp string,
\* with or without device_id, complete or lacking one required field
ObjectLines ==
    {[json |-> "object",
      data |-> Without([event_id |-> id, ts |-> ts, user |-> "u1",
                        source_ip |-> ip, result |-> "success", device_id |-> "d1"],
                       dropped)] :
        id \in 1..2, ts \in TsStrings, ip \in {"10.0.1.5", "10.0.1.9"},
        dropped \in {{}, {"device_id"}, {"user"}, {"event_id", "device_id"}}}

FileLines ==
    {[json |-> "blank"], [json |-> "invalid"], [json |-> "scalar"]} \cup ObjectLines

InitIngest ==
    /\ pc = "call"
    /\ \/ params \in [path_exists : {TRUE}, content : SeqsUpTo(FileLines, MaxLines)]
       \/ params = [path_exists |-> FALSE, content |-> <<>>]
    /\ events = <<>>
    /\ alerts = <<>>
    /\ event_index = <<>>
    /\ hashseed = 0
    /\ uuid_ctr = 0
    /\ cases = <<>>
    /\ prev_run = <<>>
    /\ case_score = NoValue

ParseJsonl ==
    /\ pc = "call"
    /\ LET r == parse_jsonl(params.path_exists, params.content)
       IN  /\ events' = r.events
           /\ event_index' = r.event_index
           /\ pc' = IF r.raised THEN "raised" ELSE "return"
    /\ UNCHANGED <<params, alerts, hashseed, uuid_ctr, cases, prev_run, case_score>>

NextIngest == ParseJsonl

SpecIngest == InitIngest /\ [][NextIngest]_vars

---------------------------------------------------------------------------
(* detectors/__init__.py and cli.py: the detectors run one after the other
   on the same events, and their alerts are correlated *)

\* run_all_detectors(events, ...): the alerts of the three detectors, in the
\* order impossible travel, failure->success chain, new device
run_all_detectors(evs, p, has_user_agents) ==
    detect_impossible_travel(evs, p.speed_threshold_kmh, p.max_travel_hours)
    \o detect_fail_success_chain(evs,
           [window_minutes |-> p.failure_window_minutes,
            min_failures_same_ip |-> p.min_failures_same_ip,
            min_failures_multi_ip |-> p.min_failures_multi_ip])
    \o detect_new_device(evs, p.device_lookback_days, has_user_agents)

\* event_index of parse_jsonl for these events: event_id -> AuthEvent
index_of(evs) ==
    [id \in {evs[i].event_id : i \in 1..Len(evs)} |->
        evs[Max({i \in 1..Len(evs) : evs[i].event_id = id})]]

---------------------------------------------------------------------------
(* SpecIsolation: the detectors and the correlation run on a list of events
   of two users; then the events of the users other than one observed user
   are removed, moved or added to, and everything runs again in the same
   process.  Times are in minutes, so the correlation window of
   window_hours hours is 60 * window_hours. *)

\* longest event list of the first run
MaxPipelineEvents == 3
\* the events are at 0, 90, ... 90 * MaxPipelineSteps minutes
MaxPipelineSteps == 1

\* <<source_ip, country, lat, lon>> of the two places of the model
Places == {<<"ip1", "US", NewYork[1], NewYork[2]>>, <<"ip2", "JP", Tokyo[1], Tokyo[2]>>}

\* <<user, step, result, place, device_id>>
PipelineShapes ==
    Users \X (0..MaxPipelineSteps) \X {"failure", "success"} \X Places \X {"d1", "d2"}

PipelineEvent(id, shape) ==
    AuthEvent(id, 90 * shape[2], shape[1], shape[4][1], shape[4][2], shape[4][3],
              shape[4][4], shape[5], shape[3], None)

Reverse(s) == [i \in 1..Len(s) |-> s[Len(s) + 1 - i]]

\* What can become of the event list when only the events of users other
\* than user change: they are removed, moved before or behind the user's
\* events, or one more is put in front
OtherUsersChanged(evs, user) ==
    LET mine == SelectSeq(evs, LAMBDA e : e.user = user)
        others == SelectSeq(evs, LAMBDA e : e.user # user)
    IN  {mine, others \o mine, mine \o Reverse(others)}
        \cup {<<PipelineEvent(Len(evs) + 1, shape)>> \o evs :
                 shape \in {sh \in PipelineShapes :
                               sh[1] # user /\ sh[4][1] = "ip2" /\ sh[5] = "d2"}}

InitIsolation ==
    /\ pc = "call"
    /\ \E shapes \in SeqsUpTo(PipelineShapes, MaxPipelineEvents) :
           events = [i \in 1..Len(shapes) |-> PipelineEvent(i, shapes[i])]
    /\ params = [speed_threshold_kmh |-> 900, max_travel_hours |-> 6,
                 failure_window_minutes |-> 120, min_failures_same_ip |-> 1,
                 min_failures_multi_ip |-> 1, device_lookback_days |-> 30,
                 has_user_agents |-> FALSE, window_hours |-> 1]
    /\ alerts = <<>>
    /\ event_index = <<>>
    /\ hashseed = 0
    /\ uuid_ctr = 0
    /\ cases = <<>>
    /\ prev_run = <<>>
    /\ case_score = NoValue

\* analyze of cli.py, from the parsed events on
Analyze ==
    /\ pc = "call"
    /\ alerts' = run_all_detectors(events, params, params.has_user_agents)
    /\ event_index' = index_of(events)
    /\ cases' = correlate_cases(alerts', event_index', 60 * params.window_hours,
                                hashseed, uuid_ctr + Len(alerts'))
    /\ uuid_ctr' = uuid_ctr + Len(alerts') + Len(cases')
    /\ pc' = "return"
    /\ UNCHANGED <<events, params, hashseed, prev_run, case_score>>

\* The user whose results are compared; the users are interchangeable
ObservedUser == "u1"

\* The caller keeps the first result of one user and runs again after the
\* events of the other users have changed.
ChangeOtherUsers ==
    /\ pc = "return"
    /\ prev_run = <<>>
    /\ \E user \in {ObservedUser} :
        /\ events' \in OtherUsersChanged(events, user)
        /\ prev_run' = <<[user |-> user, alerts |-> alerts, cases |-> cases,
                          hashseed |-> hashseed]>>
    /\ alerts' = <<>>
    /\ cases' = <<>>
    /\ event_index' = <<>>
    /\ pc' = "call"
    /\ UNCHANGED <<params, hashseed, uuid_ctr, case_score>>

NextIsolation == Analyze \/ ChangeOtherUsers

SpecIsolation == InitIsolation /\ [][NextIsolation]_vars

---------------------------------------------------------------------------
(* Claims about scoring *)

HasManyFailures(als) == \E i \in 1..Len(als) : many_failures(als[i])
HasNewDeviceAndCountry(als) == \E i \in 1..Len(als) : new_device_and_country(als[i])

\* C1: a case holding a fail_success_chain alert with failure_count >= 10 and
\* a new_device_ua alert with is_new_device and is_new_country scores
\* min(100, base + 30): +15 for the two detectors and two independent +10.
C1_BothBonuses ==
    (pc = "return" /\ HasManyFailures(alerts) /\ HasNewDeviceAndCountry(alerts))
        => case_score[1] = Min({100, base_score(alerts) + 30})

\* C6: the score returned by calculate_case_score never exceeds 100.
C6_ScoreAtMost100 ==
    pc = "return" => case_score[1] <= 100

\* C6 witness: base and bonuses add up to more than 100 and the score is 100.
C6_Witness ==
    /\ pc = "return"
    /\ alerts # <<>>
    /\ base_score(alerts) + multi_detector_bonus(alerts) + pattern_bonus(alerts, 1) > 100
    /\ case_score[1] = 100

---------------------------------------------------------------------------
(* Claims about correlation *)

\* the alerts of one user in input order, and the cases built for the user
AlertsOf(u) == SelectSeq(alerts, LAMBDA a : a.user = u)
CasesOf(u) == SelectSeq(cases, LAMBDA c : c.user = u)

\* the two alerts share an IP or a device id (evidence keys ips, device_ids)
SharesIp(a, b) == a.evidence.ips \cap b.evidence.ips # {}
SharesDevice(a, b) == a.evidence.device_ids \cap b.evidence.device_ids # {}
\* alert b starts within the window after the end of alert a
InWindow(a, b) == b.ts_start <= a.ts_end + params.window_hours
Related(a, b) == InWindow(a, b) \/ SharesIp(a, b) \/ SharesDevice(a, b)

\* of a user's two alerts, the one the sort by ts_start puts first / second
Earlier(two) == IF two[2].ts_start < two[1].ts_start THEN two[2] ELSE two[1]
Later(two) == IF two[2].ts_start < two[1].ts_start THEN two[1] ELSE two[2]

\* C2: a user with exactly two alerts gets one case holding both if and only
\* if the later alert starts within window_hours of the earlier alert's end
\* or the two share an IP or a device id; otherwise the user gets two cases.
C2_TwoAlertsMergeIff ==
    pc = "return" =>
        \A u \in Users :
            Len(AlertsOf(u)) = 2 =>
                LET a == Earlier(AlertsOf(u))
                    b == Later(AlertsOf(u))
                IN  IF Related(a, b)
                    THEN /\ Len(CasesOf(u)) = 1
                         /\ CasesOf(u)[1].alerts = <<a, b>>
                    ELSE /\ Len(CasesOf(u)) = 2
                         /\ {CasesOf(u)[k].alerts : k \in 1..2} = {<<a>>, <<b>>}

\* C2 witness: two alerts of a user lie outside the time window, share an IP
\* and no device id, and are merged into one case.
C2_Witness ==
    /\ pc = "return"
    /\ \E u \in Users :
        /\ Len(AlertsOf(u)) = 2
        /\ ~InWindow(Earlier(AlertsOf(u)), Later(AlertsOf(u)))
        /\ SharesIp(Earlier(AlertsOf(u)), Later(AlertsOf(u)))
        /\ ~SharesDevice(Earlier(AlertsOf(u)), Later(AlertsOf(u)))
        /\ Len(CasesOf(u)) = 1
        /\ Len(CasesOf(u)[1].alerts) = 2

\* The orders in which the cases of user u can be laid end to end
CaseOrders(u) ==
    LET n == Len(CasesOf(u))
    IN  {f \in [1..n -> 1..n] : \A i, j \in 1..n : i # j => f[i] # f[j]}

\* the positions of the user's sorted alert list at which the cases start,
\* when the cases are laid end to end in order f
Starts(u, f) ==
    {1 + Len(Concat([j \in 1..(g - 1) |-> CasesOf(u)[f[j]].alerts])) :
        g \in 1..Len(CasesOf(u))}

\* the user's cases laid end to end in order f give the sorted alert list
LaysOut(u, f) ==
    Concat([j \in 1..Len(CasesOf(u)) |-> CasesOf(u)[f[j]].alerts])
        = SortByTsStart(AlertsOf(u))

\* alert k of the user's sorted list is unrelated to every alert from the
\* start of the group that is open when it is examined
UnrelatedToOpenGroup(u, f, k) ==
    LET L == SortByTsStart(AlertsOf(u))
        open == Max({p \in Starts(u, f) : p < k})
    IN  \A j \in open..(k - 1) : ~Related(L[j], L[k])

\* alert k of the sorted list shares an IP or device id with an alert of a
\* case that was closed before alert k was examined
SharesWithClosedGroup(u, f, k) ==
    LET L == SortByTsStart(AlertsOf(u))
        open == Max({p \in Starts(u, f) : p < k})
    IN  \E j \in 1..(open - 1) : SharesIp(L[j], L[k]) \/ SharesDevice(L[j], L[k])

\* C3: the pass is greedy: in each user's alerts sorted by ts_start, an alert
\* that is outside the window of, and shares no IP or device id with, every
\* alert of the open group starts a new case, whatever it shares with the
\* alerts of the cases closed before.
C3_GreedyOnePass ==
    pc = "return" =>
        \A u \in Users :
            \E f \in CaseOrders(u) :
                /\ LaysOut(u, f)
                /\ \A k \in 2..Len(AlertsOf(u)) :
                       UnrelatedToOpenGroup(u, f, k) => k \in Starts(u, f)

\* C3 witness: an alert started a new case although it shares an IP or device
\* id with an alert of an earlier, closed case of the same user.
C3_Witness ==
    /\ pc = "return"
    /\ \E u \in Users :
        \E f \in CaseOrders(u) :
            /\ LaysOut(u, f)
            /\ \E k \in 2..Len(AlertsOf(u)) :
                /\ k \in Starts(u, f)
                /\ UnrelatedToOpenGroup(u, f, k)
                /\ SharesWithClosedGroup(u, f, k)

\* C4: every case holds the alerts of one user only, the user of the case.
C4_OneUserPerCase ==
    pc = "return" =>
        \A c \in 1..Len(cases) :
            \A i \in 1..Len(cases[c].alerts) :
                cases[c].alerts[i].user = cases[c].user

\* C4 witness: alerts of two users that overlap in time and share an IP and a
\* device id were given, and each ended up in a case of its own user.
C4_Witness ==
    /\ pc = "return"
    /\ \E i, j \in 1..Len(alerts) :
        /\ alerts[i].user # alerts[j].user
        /\ alerts[i].ts_start = alerts[j].ts_start
        /\ SharesIp(alerts[i], alerts[j])
        /\ SharesDevice(alerts[i], alerts[j])
    /\ \A c \in 1..Len(cases) :
        \A i \in 1..Len(cases[c].alerts) : cases[c].alerts[i].user = cases[c].user
    /\ Len(cases) >= 2

---------------------------------------------------------------------------
(* Claims about repeating the correlation *)

SecondReturn == pc = "return" /\ prev_run # <<>>
FirstCases == prev_run[1].cases

\* C5: correlating the same alerts, index and window twice gives the same
\* number of cases in the same order, each with the same alerts, timeline,
\* score and severity; only case_id may differ.
C5_RerunIdentical ==
    SecondReturn =>
        /\ Len(cases) = Len(FirstCases)
        /\ \A k \in 1..Len(cases) :
            /\ cases[k].alerts = FirstCases[k].alerts
            /\ cases[k].timeline = FirstCases[k].timeline
            /\ cases[k].overall_score = FirstCases[k].overall_score
            /\ cases[k].overall_severity = FirstCases[k].overall_severity

IsSortedByTs(tl) == \A i, j \in 1..Len(tl) : i < j => tl[i].ts <= tl[j].ts

\* C5 amended: the second call gives the same number of cases in the same
\* order, each with the same alerts, score and severity and a timeline of the
\* same events in non-decreasing ts order; the timelines are identical when
\* both calls run under the same hash seed (one interpreter process), and may
\* differ in the order of events with equal ts otherwise.
C5_RerunSameUpToTies ==
    SecondReturn =>
        /\ Len(cases) = Len(FirstCases)
        /\ \A k \in 1..Len(cases) :
            /\ cases[k].alerts = FirstCases[k].alerts
            /\ cases[k].user = FirstCases[k].user
            /\ cases[k].overall_score = FirstCases[k].overall_score
            /\ cases[k].overall_severity = FirstCases[k].overall_severity
            /\ Range(cases[k].timeline) = Range(FirstCases[k].timeline)
            /\ Len(cases[k].timeline) = Len(FirstCases[k].timeline)
            /\ IsSortedByTs(cases[k].timeline)
            /\ IsSortedByTs(FirstCases[k].timeline)
            /\ hashseed = prev_run[1].hashseed
                   => cases[k].timeline = FirstCases[k].timeline

\* C5 witness: a second call under another hash seed returned two cases with
\* fresh case ids, and one timeline lists its equal-ts events in another order.
C5_Witness ==
    /\ SecondReturn
    /\ hashseed # prev_run[1].hashseed
    /\ Len(cases) = 2
    /\ \A k \in 1..2 : cases[k].case_id # FirstCases[k].case_id
    /\ \E k \in 1..2 : cases[k].timeline # FirstCases[k].timeline

---------------------------------------------------------------------------
(* Claims about the impossible-travel detector *)

\* the event with the given id (the id is the position in the event list)
EventOf(id) == events[id]

\* event e is a success that carries both lat and lon
IsGeoSuccess(e) == e.result = "success" /\ e.lat # None /\ e.lon # None

\* the place of e among its user's successes with coordinates, ordered by ts
\* and, for equal ts, by position in the event list
GeoRank(e) ==
    Cardinality({i \in 1..Len(events) :
        /\ IsGeoSuccess(events[i])
        /\ events[i].user = e.user
        /\ \/ events[i].ts < e.ts
           \/ (events[i].ts = e.ts /\ i < e.event_id)})

\* C7: every impossible-travel alert relates exactly two events of one user,
\* both successes with lat and lon, that are immediate neighbours in the
\* user's time-sorted successes with coordinates, 0 < dt <= max_hours apart.
C7_OnlyAdjacentPairsInRange ==
    pc = "return" =>
        \A a \in 1..Len(alerts) :
            /\ Len(alerts[a].related_event_ids) = 2
            /\ LET e1 == EventOf(alerts[a].related_event_ids[1])
                   e2 == EventOf(alerts[a].related_event_ids[2])
               IN  /\ e1.event_id # e2.event_id
                   /\ e1.user = alerts[a].user
                   /\ e2.user = alerts[a].user
                   /\ IsGeoSuccess(e1)
                   /\ IsGeoSuccess(e2)
                   /\ GeoRank(e2) = GeoRank(e1) + 1
                   /\ e2.ts - e1.ts > 0
                   /\ e2.ts - e1.ts <= params.max_hours * 60

\* C7 witness: an alert was emitted for a neighbouring pair while the same
\* user also has a pair more than max_hours apart, a pair with equal ts and
\* a failure, none of which is flagged.
C7_Witness ==
    /\ pc = "return"
    /\ Len(alerts) = 1
    /\ \E i, j \in 1..Len(events) :
        /\ i # j
        /\ events[i].user = alerts[1].user
        /\ events[j].user = alerts[1].user
        /\ IsGeoSuccess(events[i])
        /\ IsGeoSuccess(events[j])
        /\ \/ events[j].ts - events[i].ts > params.max_hours * 60
           \/ events[j].ts = events[i].ts

\* the ids of the successes with coordinates of user u
GeoIdsOf(u) ==
    {i \in 1..Len(events) : events[i].user = u /\ IsGeoSuccess(events[i])}

\* C8: with the default parameters, a user with exactly two successes with
\* coordinates, 0 < dt < 6 h apart and more than 900 km/h apart, gets exactly
\* one alert; it relates the two events and its severity is high or critical.
C8_TwoLoginsOneAlert ==
    (pc = "return" /\ params.speed_threshold_kmh = 900 /\ params.max_hours = 6) =>
        \A u \in Users :
            \A i, j \in GeoIdsOf(u) :
                (/\ GeoIdsOf(u) = {i, j}
                 /\ events[j].ts - events[i].ts > 0
                 /\ events[j].ts - events[i].ts < 6 * 60
                 /\ haversine_km(<<events[i].lat, events[i].lon>>,
                                  <<events[j].lat, events[j].lon>>) * 60
                        > 900 * (events[j].ts - events[i].ts))
                => LET mine == SelectSeq(alerts, LAMBDA a : a.user = u)
                   IN  /\ Len(mine) = 1
                       /\ mine[1].related_event_ids = <<i, j>>
                       /\ mine[1].severity \in {"high", "critical"}

\* C8 witness: under the default parameters a user's two logins from New York
\* and Tokyo, at least two hours apart, gave one alert of severity high.
C8_Witness ==
    /\ pc = "return"
    /\ params.speed_threshold_kmh = 900
    /\ params.max_hours = 6
    /\ \E u \in Users :
        /\ Cardinality(GeoIdsOf(u)) = 2
        /\ Len(SelectSeq(alerts, LAMBDA a : a.user = u)) = 1
        /\ SelectSeq(alerts, LAMBDA a : a.user = u)[1].severity = "high"
        /\ SelectSeq(alerts, LAMBDA a : a.user = u)[1].evidence.minutes_between >= 2 * 60

---------------------------------------------------------------------------
(* Claims about the failure->success chain detector *)

\* event i comes before event s in the user's list sorted by ts (equal ts
\* keep the order of the event list)
SortsBefore(i, s) ==
    \/ events[i].ts < events[s].ts
    \/ (events[i].ts = events[s].ts /\ i < s)

\* F: the ids of the failures of the same user in the trailing window of
\* success s
WindowFailures(s) ==
    {i \in 1..Len(events) :
        /\ events[i].user = events[s].user
        /\ events[i].result = "failure"
        /\ SortsBefore(i, s)
        /\ events[i].ts >= events[s].ts - params.window_minutes}

\* the largest number of failures of F that come from one source IP
MaxPerIp(F) ==
    Max({0} \cup {Cardinality({i \in F : events[i].source_ip = events[j].source_ip}) :
                     j \in F})

\* the alerts emitted for success s: those whose last related id is s
AlertsFor(s) ==
    {a \in 1..Len(alerts) :
        alerts[a].related_event_ids[Len(alerts[a].related_event_ids)] = s}

SuccessIds == {s \in 1..Len(events) : events[s].result = "success"}

\* the attack type and threshold of the alert for s follow the trigger policy
PolicyOfAlert(s) ==
    \A a \in AlertsFor(s) :
        IF MaxPerIp(WindowFailures(s)) >= params.min_failures_same_ip
        THEN /\ alerts[a].evidence.attack_type = "same_ip"
             /\ alerts[a].evidence.threshold_used = params.min_failures_same_ip
        ELSE /\ alerts[a].evidence.attack_type = "multi_ip"
             /\ alerts[a].evidence.threshold_used = params.min_failures_multi_ip

\* C9: a user whose events are n failures from one source IP, all in the
\* window before the user's single success, with n >= min_failures_same_ip,
\* gets exactly one alert: same_ip, failure_count n, and related_event_ids
\* the n failures plus the success.
C9_SameIpChainOneAlert ==
    pc = "return" =>
        \A u \in Users :
            \A s \in SuccessIds :
                LET mine == {i \in 1..Len(events) : events[i].user = u}
                    F == mine \ {s}
                    n == Cardinality(F)
                    got == SelectSeq(alerts, LAMBDA a : a.user = u)
                IN  (/\ s \in mine
                     /\ n >= 1
                     /\ \A i \in F : events[i].result = "failure"
                     /\ \A i, j \in F : events[i].source_ip = events[j].source_ip
                     /\ F = WindowFailures(s)
                     /\ n >= params.min_failures_same_ip)
                    => /\ Len(got) = 1
                       /\ got[1].evidence.attack_type = "same_ip"
                       /\ got[1].evidence.failure_count = n
                       /\ Len(got[1].related_event_ids) = n + 1
                       /\ Range(got[1].related_event_ids) = F \cup {s}

\* C9 witness: two failures from one IP, the older one exactly window_minutes
\* before the success, and the one alert of the user counts both.
C9_Witness ==
    /\ pc = "return"
    /\ params.min_failures_same_ip = 2
    /\ \E s \in SuccessIds :
        /\ {i \in 1..Len(events) : events[i].user = events[s].user} \ {s}
               = WindowFailures(s)
        /\ Cardinality(WindowFailures(s)) = 2
        /\ \E i \in WindowFailures(s) :
               events[i].ts = events[s].ts - params.window_minutes
        /\ \A i, j \in WindowFailures(s) : events[i].source_ip = events[j].source_ip
        /\ Len(alerts) = 1
        /\ alerts[1].evidence.failure_count = 2
        /\ alerts[1].evidence.attack_type = "same_ip"

\* C10: for each success with F the failures of its trailing window, an alert
\* is emitted if and only if the largest per-IP count of F is >=
\* min_failures_same_ip or |F| >= min_failures_multi_ip; it is same_ip with
\* threshold_used = min_failures_same_ip whenever the per-IP condition holds,
\* and multi_ip with threshold_used = min_failures_multi_ip only otherwise.
C10_TriggerPolicy ==
    pc = "return" =>
        \A s \in SuccessIds :
            LET F == WindowFailures(s)
                met == \/ MaxPerIp(F) >= params.min_failures_same_ip
                       \/ Cardinality(F) >= params.min_failures_multi_ip
            IN  /\ Cardinality(AlertsFor(s)) = (IF met THEN 1 ELSE 0)
                /\ PolicyOfAlert(s)

\* C10 amended: the same, for a success whose trailing window holds at least
\* one failure; a success with no failure in its window never gets an alert,
\* whatever the thresholds (a threshold <= 0 is met by an empty window).
C10_TriggerPolicyNonEmpty ==
    pc = "return" =>
        \A s \in SuccessIds :
            LET F == WindowFailures(s)
                met == \/ MaxPerIp(F) >= params.min_failures_same_ip
                       \/ Cardinality(F) >= params.min_failures_multi_ip
            IN  /\ Cardinality(AlertsFor(s)) = (IF F # {} /\ met THEN 1 ELSE 0)
                /\ PolicyOfAlert(s)

\* C10 witness: the window of a success meets both thresholds, which differ,
\* and the alert is same_ip with the same-IP threshold; another call meets
\* neither threshold and emits nothing (the witness is the first).
C10_Witness ==
    /\ pc = "return"
    /\ params.min_failures_same_ip = 2
    /\ params.min_failures_multi_ip = 1
    /\ \E s \in SuccessIds :
        /\ MaxPerIp(WindowFailures(s)) >= 2
        /\ \E a \in AlertsFor(s) :
            /\ alerts[a].evidence.attack_type = "same_ip"
            /\ alerts[a].evidence.threshold_used = 2

---------------------------------------------------------------------------
(* Claims about the new-device detector *)

\* the events of the user of event e that are walked before e: earlier in
\* the time-sorted order (equal ts keep the order of the event list)
WalkedBefore(e) ==
    {i \in 1..Len(events) : events[i].user = events[e].user /\ SortsBefore(i, e)}

\* what the user's baseline holds when event e is checked
KnownDevices(e) ==
    {events[i].device_id : i \in {j \in WalkedBefore(e) : events[j].device_id # None}}

KnownFamilies(e) ==
    {get_ua_family(events[i].user_agent, params.has_user_agents) :
        i \in {j \in WalkedBefore(e) : events[j].device_id # None}}

KnownCountries(e) ==
    {events[i].country :
        i \in {j \in WalkedBefore(e) :
                  events[j].device_id # None /\ events[j].country # None}}

\* the alerts that relate event e
DeviceAlertsFor(e) ==
    {a \in 1..Len(alerts) : alerts[a].related_event_ids = <<e>>}

\* C11: a successful login whose device_id and UA family are both in the
\* user's baseline gets no alert, also when its country was never seen for
\* the user: a new country alone never triggers.
C11_NewCountryAloneNoAlert ==
    pc = "return" =>
        \A e \in 1..Len(events) :
            (/\ events[e].result = "success"
             /\ events[e].device_id \in KnownDevices(e)
             /\ get_ua_family(events[e].user_agent, params.has_user_agents)
                    \in KnownFamilies(e))
            => DeviceAlertsFor(e) = {}

\* C11 witness: a success from a known device and known UA family whose
\* country is new against a baseline that knows another country.
C11_Witness ==
    /\ pc = "return"
    /\ \E e \in 1..Len(events) :
        /\ events[e].result = "success"
        /\ events[e].device_id \in KnownDevices(e)
        /\ get_ua_family(events[e].user_agent, params.has_user_agents)
               \in KnownFamilies(e)
        /\ events[e].country # None
        /\ KnownCountries(e) # {}
        /\ events[e].country \notin KnownCountries(e)
        /\ alerts = <<>>

\* the successes of user u
SuccessesOf(u) ==
    {e \in 1..Len(events) : events[e].user = u /\ events[e].result = "success"}

\* C12: a user whose events are a first success that establishes the baseline
\* (device d1, country c1) and a second success from another device and
\* another country gets exactly one alert; it relates the second event and
\* its severity is high.
C12_NewDeviceNewCountryHigh ==
    pc = "return" =>
        \A u \in Users :
            \A e1, e2 \in SuccessesOf(u) :
                (/\ {i \in 1..Len(events) : events[i].user = u} = {e1, e2}
                 /\ SortsBefore(e1, e2)
                 /\ events[e1].device_id # None
                 /\ events[e1].country # None
                 /\ events[e2].device_id # None
                 /\ events[e2].country # None
                 /\ events[e2].device_id # events[e1].device_id
                 /\ events[e2].country # events[e1].country)
                => LET got == SelectSeq(alerts, LAMBDA a : a.user = u)
                   IN  /\ Len(got) = 1
                       /\ got[1].related_event_ids = <<e2>>
                       /\ got[1].severity = "high"

\* C12 witness: the user's only two events are successes with the same user
\* agent, from d1 in c1 and then from d2 in c2, and the alert is high.
C12_Witness ==
    /\ pc = "return"
    /\ Len(events) = 2
    /\ events[1].user = events[2].user
    /\ events[1].result = "success" /\ events[2].result = "success"
    /\ events[1].ts < events[2].ts
    /\ events[1].device_id = "d1" /\ events[2].device_id = "d2"
    /\ events[1].country = "c1" /\ events[2].country = "c2"
    /\ events[1].user_agent = events[2].user_agent
    /\ Len(alerts) = 1
    /\ alerts[1].severity = "high"
    /\ alerts[1].related_event_ids = <<2>>

\* the user's first-ever success: no success of the user is walked before it
IsFirstSuccess(e) ==
    /\ events[e].result = "success"
    /\ \A i \in WalkedBefore(e) : events[i].result # "success"

\* C19: a user's very first successful login never produces a new_device_ua
\* alert: the baseline holds a device when a success is checked exactly when
\* that success is not the user's first-ever success.
C19_FirstSuccessNeverAlerts ==
    pc = "return" =>
        \A e \in 1..Len(events) :
            events[e].result = "success" =>
                /\ IsFirstSuccess(e) => DeviceAlertsFor(e) = {}
                /\ (KnownDevices(e) # {}) <=> ~IsFirstSuccess(e)

\* C19 amended: the anomaly check runs for a success exactly when an earlier
\* event of the user, success or failure, carried a device_id.  A success
\* with no such earlier event never gets an alert (so a user's first event
\* never does); a success with one gets an alert whenever its own device_id
\* is present and not among the earlier ones, also when it is the user's
\* first-ever success.
C19_CheckedIffEarlierDevice ==
    pc = "return" =>
        \A e \in 1..Len(events) :
            events[e].result = "success" =>
                /\ KnownDevices(e) = {} => DeviceAlertsFor(e) = {}
                /\ (/\ KnownDevices(e) # {}
                    /\ events[e].device_id # None
                    /\ events[e].device_id \notin KnownDevices(e))
                   => Cardinality(DeviceAlertsFor(e)) = 1

\* C19 witness: a user's first-ever success is flagged, because an earlier
\* failed login of the user carried another device_id; and the success is the
\* only one of the user.
C19_Witness ==
    /\ pc = "return"
    /\ \E e \in 1..Len(events) :
        /\ IsFirstSuccess(e)
        /\ SuccessesOf(events[e].user) = {e}
        /\ \E i \in WalkedBefore(e) :
               events[i].result = "failure" /\ events[i].device_id # None
        /\ Cardinality(DeviceAlertsFor(e)) = 1

---------------------------------------------------------------------------
(* Claims about the case timeline *)

\* the event ids related by some member alert of case c
RelatedIds(c) ==
    UNION {Range(c.alerts[i].related_event_ids) : i \in 1..Len(c.alerts)}

\* C13: the timeline of every case holds exactly the events of the index
\* whose id some member alert relates, each once, in non-decreasing ts
\* order; an id missing from the index is left out and no case is lost for
\* it: with an empty index every case is still returned, its timeline empty.
C13_TimelineResolvedOnceSorted ==
    pc = "return" =>
        /\ \A k \in 1..Len(cases) :
            LET tl == cases[k].timeline
                ids == RelatedIds(cases[k]) \cap DOMAIN event_index
            IN  /\ Range(tl) = {event_index[id] : id \in ids}
                /\ Len(tl) = Cardinality(ids)
                /\ IsSortedByTs(tl)
        /\ Len(Concat([k \in 1..Len(cases) |-> cases[k].alerts])) = Len(alerts)
        /\ alerts # <<>> => cases # <<>>

\* C13 witness: a case of two alerts that both relate event 2, the index
\* lacking one of the three related events, and a timeline of two events.
C13_Witness ==
    /\ pc = "return"
    /\ \E k \in 1..Len(cases) :
        /\ Len(cases[k].alerts) = 2
        /\ 2 \in Range(cases[k].alerts[1].related_event_ids)
        /\ 2 \in Range(cases[k].alerts[2].related_event_ids)
        /\ RelatedIds(cases[k]) = {1, 2, 3}
        /\ Cardinality(DOMAIN event_index) = 2
        /\ 2 \in DOMAIN event_index
        /\ Len(cases[k].timeline) = 2

---------------------------------------------------------------------------
(* Claims about the case list and the recommended actions *)

\* the rank of a severity in the result: critical first, low last
SeverityRank(severity) ==
    CASE severity = "critical" -> 0
      [] severity = "high" -> 1
      [] severity = "medium" -> 2
      [] severity = "low" -> 3

\* C15: the returned list is ordered across all users by severity rank
\* ascending (critical, high, medium, low) and, among cases of equal
\* severity, by ts_start ascending.
C15_CasesBySeverityThenStart ==
    pc = "return" =>
        \A i, j \in 1..Len(cases) :
            i < j =>
                \/ SeverityRank(cases[i].overall_severity)
                       < SeverityRank(cases[j].overall_severity)
                \/ /\ cases[i].overall_severity = cases[j].overall_severity
                   /\ cases[i].ts_start <= cases[j].ts_start

\* C15 witness: three cases of two users; the first two differ in severity,
\* the last two have the same severity and different ts_start, and the case
\* returned first is built from the last input alert.
C15_Witness ==
    /\ pc = "return"
    /\ Len(cases) = 3
    /\ cases[1].overall_severity # cases[2].overall_severity
    /\ cases[2].overall_severity = cases[3].overall_severity
    /\ cases[2].ts_start < cases[3].ts_start
    /\ cases[2].user # cases[3].user
    /\ cases[1].alerts = <<alerts[3]>>
    /\ cases[1].ts_start > cases[2].ts_start

\* C16: recommended_actions is the contact-user action, then the blocks of
\* impossible_travel, fail_success_chain and new_device_ua in this order,
\* each present once exactly when a member alert comes from that detector,
\* then the three closing actions, whatever the order and number of the
\* member alerts.
C16_ActionsInFixedOrder ==
    pc = "return" =>
        \A k \in 1..Len(cases) :
            LET acts == cases[k].recommended_actions
                has(d) == \E i \in 1..Len(cases[k].alerts) :
                              cases[k].alerts[i].detector = d
                blocks == <<IF has("impossible_travel") THEN TravelActions ELSE <<>>,
                            IF has("fail_success_chain") THEN ChainActions ELSE <<>>,
                            IF has("new_device_ua") THEN DeviceActions ELSE <<>> >>
            IN  /\ Len(acts) >= 4
                /\ SubSeq(acts, 1, 1) = ContactUser
                /\ SubSeq(acts, Len(acts) - 2, Len(acts)) = ClosingActions
                /\ SubSeq(acts, 2, Len(acts) - 3) = Concat(blocks)

\* C16 witness: a case whose alerts come from new_device_ua, then
\* fail_success_chain, then impossible_travel, with all three blocks.
C16_Witness ==
    /\ pc = "return"
    /\ \E k \in 1..Len(cases) :
        /\ Len(cases[k].alerts) = 3
        /\ cases[k].alerts[1].detector = "new_device_ua"
        /\ cases[k].alerts[2].detector = "fail_success_chain"
        /\ cases[k].alerts[3].detector = "impossible_travel"
        /\ Len(cases[k].recommended_actions) = 11

C20_CountsExactlyWindowFailures ==
    pc = "return" =>
        \A s \in SuccessIds :
            /\ \A a \in AlertsFor(s) :
                /\ alerts[a].evidence.failure_count = Cardinality(WindowFailures(s))
                /\ Range(alerts[a].related_event_ids) = WindowFailures(s) \cup {s}
                /\ Len(alerts[a].related_event_ids) = Cardinality(WindowFailures(s)) + 1
            /\ (params.min_failures_same_ip = 0 /\ WindowFailures(s) # {})
               => AlertsFor(s) # {}

\* C20 witness: a failure, then a success, then a second success of the same
\* user, the failure exactly window_minutes before the second success; the
\* alert of the second success counts the failure.
C20_Witness ==
    /\ pc = "return"
    /\ Len(events) = 3
    /\ events[1].user = events[2].user /\ events[2].user = events[3].user
    /\ events[1].result = "failure"
    /\ events[2].result = "success"
    /\ events[3].result = "success"
    /\ events[1].ts < events[2].ts /\ events[2].ts < events[3].ts
    /\ events[1].ts = events[3].ts - params.window_minutes
    /\ \E a \in AlertsFor(3) :
        /\ alerts[a].evidence.failure_count = 1
        /\ alerts[a].related_event_ids = <<1, 3>>

---------------------------------------------------------------------------
(* Claims about ingestion *)

\* a well-formed line: an event with every required field and a timestamp
\* that parses
WellFormed(line) ==
    /\ line.json = "object"
    /\ RequiredFields \subseteq DOMAIN line.data
    /\ line.data.ts \in {"2025-01-01T00:00:00Z", "2025-01-01T00:01:00Z"}

\* C18: no line of an existing file aborts parse_jsonl, be it malformed JSON
\* or an event that fails validation: the call returns, the list holds one
\* event per well-formed line, in file order, and the index maps the
\* event_id of every returned event to an event with that id.
C18_BadLinesNeverAbort ==
    params.path_exists =>
        /\ pc # "raised"
        /\ pc = "return" =>
            LET good == SelectSeq(params.content, WellFormed)
            IN  /\ [k \in 1..Len(events) |-> events[k].event_id]
                       = [k \in 1..Len(good) |-> good[k].data.event_id]
                /\ \A k \in 1..Len(events) :
                    /\ events[k].event_id \in DOMAIN event_index
                    /\ event_index[events[k].event_id].event_id = events[k].event_id

---------------------------------------------------------------------------
(* Claims about the independence of users *)

\* a list of cases without the generated case ids
WithoutCaseIds(cs) == [k \in 1..Len(cs) |-> Without(cs[k], {"case_id"})]

\* the alerts and the cases of a user in a result
OfUser(s, user) == SelectSeq(s, LAMBDA x : x.user = user)

\* C14: the alerts the detectors emit for a user and the cases built for
\* that user depend on that user's events only: after the events of the
\* other users were removed, reordered or added to, which also changes the
\* order in which the users are processed, the user's alerts and cases are
\* the same, generated ids aside; no baseline passes from user to user.
C14_UsersAreIndependent ==
    (pc = "return" /\ prev_run # <<>>) =>
        LET user == prev_run[1].user
        IN  /\ OfUser(alerts, user) = OfUser(prev_run[1].alerts, user)
            /\ WithoutCaseIds(OfUser(cases, user))
                   = WithoutCaseIds(OfUser(prev_run[1].cases, user))

\* C14 witness: the observed user has an alert and a case in both runs, the
\* other user has events with another device in the second run, placed
\* first, and had none or was processed later in the first.
C14_Witness ==
    /\ pc = "return"
    /\ prev_run # <<>>
    /\ OfUser(prev_run[1].cases, prev_run[1].user) # <<>>
    /\ OfUser(cases, prev_run[1].user) # <<>>
    /\ \E a \in 1..Len(alerts) :
        /\ alerts[a].user = prev_run[1].user
        /\ alerts[a].detector = "new_device_ua"
    /\ events[1].user # prev_run[1].user
    /\ events[1].device_id = "d2"
    /\ \A k \in 1..Len(prev_run[1].cases) : prev_run[1].cases[k].user = prev_run[1].user


---------------------------------------------------------------------------
(* Claims about the severity and the description of a chain alert *)

\* C21: every alert of detect_fail_success_chain, for any thresholds, has
\* severity high if its attack_type is same_ip and max_same_ip_failures, the
\* largest number of failures of the window from one IP, is >= 12, and
\* severity medium otherwise; low and critical are never produced, and a
\* multi_ip alert is never high however many failures it has.
C21_ChainSeverityHighOrMedium ==
    pc = "return" =>
        /\ \A k \in 1..Len(alerts) :
               /\ alerts[k].severity \in {"high", "medium"}
               /\ alerts[k].evidence.attack_type = "multi_ip"
                      => alerts[k].severity = "medium"
        /\ \A s \in SuccessIds :
               \A a \in AlertsFor(s) :
                   /\ alerts[a].evidence.max_same_ip_failures
                          = MaxPerIp(WindowFailures(s))
                   /\ alerts[a].severity =
                          (IF /\ alerts[a].evidence.attack_type = "same_ip"
                              /\ MaxPerIp(WindowFailures(s)) >= 12
                           THEN "high" ELSE "medium")

\* C21 witness: a multi_ip alert for a window with 12 or more failures from
\* one IP, which is medium.
C21_Witness ==
    /\ pc = "return"
    /\ Len(alerts) = 1
    /\ alerts[1].evidence.attack_type = "multi_ip"
    /\ alerts[1].evidence.max_same_ip_failures >= 12
    /\ alerts[1].severity = "medium"

\* a same_ip alert with exactly 12 failures from one IP, which is high
C21_WitnessHigh ==
    /\ pc = "return"
    /\ Len(alerts) = 1
    /\ alerts[1].evidence.attack_type = "same_ip"
    /\ alerts[1].evidence.max_same_ip_failures = 12
    /\ alerts[1].severity = "high"

\* a same_ip alert with 11 failures from one IP and 12 or more in all, which
\* is medium
C21_WitnessMedium ==
    /\ pc = "return"
    /\ Len(alerts) = 1
    /\ alerts[1].evidence.attack_type = "same_ip"
    /\ alerts[1].evidence.max_same_ip_failures = 11
    /\ alerts[1].evidence.failure_count >= 12
    /\ alerts[1].severity = "medium"


\* the number of failures of the window of success s that come from ip
FailuresFrom(s, ip) ==
    Cardinality({i \in WindowFailures(s) : events[i].source_ip = ip})

\* C30: in every alert with attack_type same_ip, the IP named in the
\* description as the source of the failed attempts is an IP whose failure
\* count in the window equals max_same_ip_failures, the number of attempts
\* the description gives, also when the failures come from several IPs.
C30_DescriptionNamesTopIp ==
    pc = "return" =>
        \A s \in SuccessIds :
            \A a \in AlertsFor(s) :
                alerts[a].evidence.attack_type = "same_ip"
                    => /\ alerts[a].description.attempts
                              = alerts[a].evidence.max_same_ip_failures
                       /\ FailuresFrom(s, alerts[a].description.same_ip)
                              = alerts[a].evidence.max_same_ip_failures


---------------------------------------------------------------------------
(* Claims about the severity of an impossible-travel alert *)

\* the two events of travel alert a, and the minutes and kilometres between them
FirstOf(a) == EventOf(a.related_event_ids[1])
SecondOf(a) == EventOf(a.related_event_ids[2])
MinutesOf(a) == SecondOf(a).ts - FirstOf(a).ts
KmOf(a) ==
    haversine_km(<<FirstOf(a).lat, FirstOf(a).lon>>, <<SecondOf(a).lat, SecondOf(a).lon>>)

\* the speed of the pair of alert a is above kmh
FasterThan(a, kmh) == KmOf(a) * 60 > kmh * MinutesOf(a)

\* C22: every impossible-travel alert is critical if speed > 2000 km/h and
\* dt < 2 h; otherwise high if speed > 900 km/h and dt < 6 h; otherwise
\* medium.  The bounds are fixed and do not follow speed_threshold_kmh or
\* max_hours, so medium is produced exactly for flagged pairs with speed
\* <= 900 km/h, which needs a threshold below 900, or with dt >= 6 h.
C22_TravelSeverityFixedBounds ==
    pc = "return" =>
        \A k \in 1..Len(alerts) :
            LET a == alerts[k]
            IN  /\ a.severity =
                       (IF FasterThan(a, 2000) /\ MinutesOf(a) < 2 * 60 THEN "critical"
                        ELSE IF FasterThan(a, 900) /\ MinutesOf(a) < 6 * 60 THEN "high"
                        ELSE "medium")
                /\ a.severity = "medium"
                       <=> (~FasterThan(a, 900) \/ MinutesOf(a) >= 6 * 60)
                /\ ~FasterThan(a, 900) => params.speed_threshold_kmh < 900

\* C22 witness: with a threshold of 100 km/h and max_hours 24, one call
\* flags a pair slower than 900 km/h and a pair faster than 900 km/h that
\* is 6 h or more apart, and both alerts are medium.
C22_Witness ==
    /\ pc = "return"
    /\ params.speed_threshold_kmh = 100
    /\ params.max_hours = 24
    /\ \E k \in 1..Len(alerts) :
           /\ ~FasterThan(alerts[k], 900)
           /\ MinutesOf(alerts[k]) < 6 * 60
           /\ alerts[k].severity = "medium"
    /\ \E k \in 1..Len(alerts) :
           /\ FasterThan(alerts[k], 900)
           /\ MinutesOf(alerts[k]) >= 6 * 60
           /\ alerts[k].severity = "medium"

\* a pair exactly 6 h apart and faster than 900 km/h is flagged with
\* max_hours 6 and is medium
C22_WitnessSixHours ==
    /\ pc = "return"
    /\ params.max_hours = 6
    /\ \E k \in 1..Len(alerts) :
           /\ MinutesOf(alerts[k]) = 6 * 60
           /\ FasterThan(alerts[k], 900)
           /\ alerts[k].severity = "medium"

\* a pair exactly 2 h apart and faster than 2000 km/h is high
C22_WitnessTwoHours ==
    /\ pc = "return"
    /\ \E k \in 1..Len(alerts) :
           /\ MinutesOf(alerts[k]) = 2 * 60
           /\ FasterThan(alerts[k], 2000)
           /\ alerts[k].severity = "high"


---------------------------------------------------------------------------
(* Claims about the baseline of the new-device detector *)

\* the tests of the anomaly check of event e against what the user's events
\* walked before e have taught
NewDeviceFor(e) ==
    events[e].device_id # None /\ events[e].device_id \notin KnownDevices(e)

NewFamilyFor(e) ==
    /\ events[e].user_agent # None
    /\ KnownFamilies(e) # {}
    /\ get_ua_family(events[e].user_agent, params.has_user_agents) \notin KnownFamilies(e)

NewCountryFor(e) ==
    /\ events[e].country # None
    /\ KnownCountries(e) # {}
    /\ events[e].country \notin KnownCountries(e)

\* C23: the anomaly check of a success uses exactly the device_ids, UA
\* families and countries of that user's events that come before it in time
\* order and carry a device_id, failures as well as successes; the event's own
\* values enter the baseline only after its own check.  The decision to
\* alert and the baseline the alert reports are those of that set of events.
C23_BaselineIsEarlierEventsWithDevice ==
    pc = "return" =>
        \A e \in 1..Len(events) :
            events[e].result = "success" =>
                /\ Cardinality(DeviceAlertsFor(e)) =
                       (IF KnownDevices(e) # {} /\ (NewDeviceFor(e) \/ NewFamilyFor(e))
                        THEN 1 ELSE 0)
                /\ \A a \in DeviceAlertsFor(e) :
                       /\ alerts[a].evidence.known_devices_count
                              = Cardinality(KnownDevices(e))
                       /\ alerts[a].evidence.known_ua_families = KnownFamilies(e)
                       /\ alerts[a].evidence.known_countries = KnownCountries(e)
                       /\ alerts[a].evidence.is_new_device = NewDeviceFor(e)
                       /\ alerts[a].evidence.is_new_ua_family = NewFamilyFor(e)
                       /\ alerts[a].evidence.is_new_country = NewCountryFor(e)

\* C23 witness: a success is flagged against a baseline of two devices, one
\* taught by a failure and one by a success; its own device and country are
\* not in the baseline the alert reports.
C23_Witness ==
    /\ pc = "return"
    /\ \E e \in 1..Len(events) :
        /\ events[e].result = "success"
        /\ \E i, j \in WalkedBefore(e) :
               /\ events[i].result = "failure" /\ events[j].result = "success"
               /\ events[i].device_id # None /\ events[j].device_id # None
               /\ events[i].device_id # events[j].device_id
        /\ \E a \in DeviceAlertsFor(e) :
               /\ alerts[a].evidence.known_devices_count = 2
               /\ events[e].country \notin alerts[a].evidence.known_countries
               /\ alerts[a].evidence.is_new_ua_family


---------------------------------------------------------------------------
(* Claims about the time spans of alerts and cases *)

\* C24: every alert emitted by any of the three detectors has ts_start <=
\* ts_end, and every case built from such alerts has ts_start equal to the
\* smallest ts_start and ts_end equal to the largest ts_end of its member
\* alerts, hence ts_start <= ts_end as well.
C24_SpansOfAlertsAndCases ==
    pc = "return" =>
        /\ \A k \in 1..Len(alerts) : alerts[k].ts_start <= alerts[k].ts_end
        /\ \A c \in 1..Len(cases) :
               LET als == cases[c].alerts
               IN  /\ als # <<>>
                   /\ \A i \in 1..Len(als) :
                          /\ cases[c].ts_start <= als[i].ts_start
                          /\ als[i].ts_end <= cases[c].ts_end
                   /\ \E i \in 1..Len(als) : cases[c].ts_start = als[i].ts_start
                   /\ \E i \in 1..Len(als) : cases[c].ts_end = als[i].ts_end
                   /\ cases[c].ts_start <= cases[c].ts_end

\* C24 witness: the three detectors each emitted an alert, and a case holds
\* alerts of two detectors whose last alert is not the one that ends last.
C24_Witness ==
    /\ pc = "return"
    /\ {alerts[k].detector : k \in 1..Len(alerts)} = Detectors
    /\ \E k \in 1..Len(alerts) : alerts[k].ts_start < alerts[k].ts_end
    /\ \E c \in 1..Len(cases) :
           LET als == cases[c].alerts
           IN  /\ Len(als) >= 2
               /\ als[1].detector # als[Len(als)].detector
               /\ als[Len(als)].ts_end < cases[c].ts_end


---------------------------------------------------------------------------
(* Claims about the groups of the greedy pass *)

\* the user's alerts in the order of the pass, and the positions i < j of that
\* list lie in one case when the cases are laid end to end in order f
Sorted(u) == SortByTsStart(AlertsOf(u))
InOneCase(u, f, i, j) == ~\E p \in Starts(u, f) : i < p /\ p <= j

\* C25: of a user's alerts in ts_start order, an alert a and a later alert b
\* with b.ts_start <= a.ts_end + window_hours always end up in the same
\* case, whatever other alerts of the user lie before, between or after them.
C25_InWindowSameCase ==
    pc = "return" =>
        \A u \in Users :
            \E f \in CaseOrders(u) :
                /\ LaysOut(u, f)
                /\ \A i, j \in 1..Len(Sorted(u)) :
                       (i < j /\ InWindow(Sorted(u)[i], Sorted(u)[j]))
                           => InOneCase(u, f, i, j)

\* C25 witness: a user's third alert is in the window of the first and is
\* neither in the window of the second nor shares an IP or device id with
\* it, and the three are one case.
C25_Witness ==
    /\ pc = "return"
    /\ \E u \in Users :
        /\ Len(Sorted(u)) = 3
        /\ InWindow(Sorted(u)[1], Sorted(u)[3])
        /\ ~Related(Sorted(u)[2], Sorted(u)[3])
        /\ Len(CasesOf(u)) = 1
        /\ CasesOf(u)[1].alerts = Sorted(u)

\* the number of times alert x occurs in the list als
Occurrences(x, als) == Cardinality({i \in 1..Len(als) : als[i] = x})

\* all alerts of all cases, case after case
CaseAlertsInOrder == Concat([c \in 1..Len(cases) |-> cases[c].alerts])

\* C26: correlate_cases partitions its input: every input alert appears in
\* exactly one case, no case is empty, the alerts of all cases are as many as
\* the input, and each case's alerts are a contiguous run of its user's
\* alerts in ts_start-ascending order.
C26_CasesPartitionAlerts ==
    pc = "return" =>
        /\ \A c \in 1..Len(cases) : cases[c].alerts # <<>>
        /\ Len(CaseAlertsInOrder) = Len(alerts)
        /\ \A x \in Range(alerts) \cup Range(CaseAlertsInOrder) :
               Occurrences(x, CaseAlertsInOrder) = Occurrences(x, alerts)
        /\ {cases[c].user : c \in 1..Len(cases)} \subseteq Users
        /\ \A u \in Users : \E f \in CaseOrders(u) : LaysOut(u, f)

\* C26 witness: three alerts of one user, given out of ts_start order, two of
\* them equal, came out as two cases that hold one and two alerts.
C26_Witness ==
    /\ pc = "return"
    /\ Len(alerts) = 3
    /\ Cardinality(Range(alerts)) = 2
    /\ \E u \in Users :
        /\ Len(AlertsOf(u)) = 3
        /\ AlertsOf(u) # Sorted(u)
        /\ Len(CasesOf(u)) = 2
        /\ \E f \in CaseOrders(u) : LaysOut(u, f)

\* C27: for two cases of a user built one after the other by the pass, the
\* first alert of the later case starts strictly after ts_end + window_hours
\* of every alert of the earlier case and shares no IP and no device id with
\* any of them; with window_hours >= 0 the time spans of a user's cases do
\* not overlap.
C27_ConsecutiveCasesApart ==
    pc = "return" =>
        \A u \in Users :
            \E f \in CaseOrders(u) :
                /\ LaysOut(u, f)
                /\ \A g \in 1..(Len(CasesOf(u)) - 1) :
                       LET earlier == CasesOf(u)[f[g]].alerts
                           first == CasesOf(u)[f[g + 1]].alerts[1]
                       IN  \A k \in 1..Len(earlier) :
                               /\ first.ts_start > earlier[k].ts_end + params.window_hours
                               /\ ~SharesIp(earlier[k], first)
                               /\ ~SharesDevice(earlier[k], first)
                /\ params.window_hours >= 0 =>
                       \A g, h \in 1..Len(CasesOf(u)) :
                           g < h => CasesOf(u)[f[g]].ts_end < CasesOf(u)[f[h]].ts_start

\* C27 witness: a user's three alerts came out as two cases, and the later
\* case starts at the first hour that is after the window of the earlier.
C27_Witness ==
    /\ pc = "return"
    /\ params.window_hours = 1
    /\ \E u \in Users :
        /\ Len(CasesOf(u)) = 2
        /\ Len(AlertsOf(u)) = 3
        /\ \E f \in CaseOrders(u) :
            /\ LaysOut(u, f)
            /\ CasesOf(u)[f[2]].ts_start = CasesOf(u)[f[1]].ts_end + 2


---------------------------------------------------------------------------
(* Claims about the severity of a case *)

\* C28: a case whose member alerts all have a severity among low, medium,
\* high and critical has an overall_severity at least as severe as its most
\* severe member: bonuses can raise the case above every member (two high
\* alerts of different detectors give a critical case), nothing lowers it.
C28_CaseAtLeastAsSevereAsMembers ==
    pc = "return" =>
        \A c \in 1..Len(cases) :
            LET als == cases[c].alerts
            IN  /\ (\A i \in 1..Len(als) : als[i].severity \in Severities)
                       => \A i \in 1..Len(als) :
                              SeverityRank(cases[c].overall_severity)
                                  <= SeverityRank(als[i].severity)
                /\ (/\ Len(als) = 2
                    /\ als[1].severity = "high" /\ als[2].severity = "high"
                    /\ als[1].detector # als[2].detector)
                       => cases[c].overall_severity = "critical"

\* C28 witness: a case of two high alerts of different detectors is
\* critical, and a case of one alert has the severity of that alert.
C28_Witness ==
    /\ pc = "return"
    /\ \E c \in 1..Len(cases) :
           /\ Len(cases[c].alerts) = 2
           /\ \A i \in 1..2 : cases[c].alerts[i].severity = "high"
           /\ cases[c].alerts[1].detector # cases[c].alerts[2].detector
           /\ cases[c].overall_severity = "critical"
    /\ \E c \in 1..Len(cases) :
           /\ Len(cases[c].alerts) = 1
           /\ cases[c].overall_severity = cases[c].alerts[1].severity

\* a case of the same detector whose first alert is more severe than its last
\* has the severity of the first
C28_WitnessMostSevereFirst ==
    /\ pc = "return"
    /\ \E c \in 1..Len(cases) :
           /\ Len(cases[c].alerts) = 2
           /\ cases[c].alerts[1].severity = "critical"
           /\ cases[c].alerts[2].severity = "low"
           /\ cases[c].overall_severity = "critical"


---------------------------------------------------------------------------
(* Claims about the growth of the device baseline *)

\* the alerts that report device d of user u as a new device
NewDeviceAlerts(u, d) ==
    {a \in 1..Len(alerts) :
        /\ alerts[a].user = u
        /\ alerts[a].evidence.is_new_device
        /\ alerts[a].evidence.new_device_id = d}

====
